---- MODULE Spec2Model ----
(***************************************************************************)
(* Model of the SQL agent: the safety-gated executor (sql_executor.py),    *)
(* the shared Context (mcp.py), the history store (memory_manager.py) and  *)
(* the pipeline graph (flow.py).                                           *)
(*                                                                         *)
(* Text is modelled as a sequence: a query is a sequence of one-character  *)
(* strings, a message built by an f-string is the sequence of its parts.   *)
(* The empty Python string is the empty sequence.                          *)
(***************************************************************************)
EXTENDS Integers, Sequences, FiniteSets, TLC

VARIABLES
    sql_query,      \* SQLExecutor.execute_sql: the query string of the call
    exec_pc,        \* SQLExecutor.execute_sql: "call" before, "returned"/"raised" after
    is_safe,        \* SQLExecutor.validate_sql: the value it returned in the call
    exec_result,    \* SQLExecutor.execute_sql: the dictionary it returned
    store_log,      \* every statement handed to session.execute, in order
    store_replies,  \* what the store answered to each of them, in order
    sessions_acquired, \* number of sessions obtained from get_db_session
    sessions_open,  \* number of sessions obtained and not yet closed
    memory_files,   \* MemoryManager: user id -> content of memory/<user id>.json
    ctx,            \* the Context of the current process_question call
    pc,             \* the graph node about to run, or "idle" / "END" / "returned"
    result,         \* the dictionary returned by process_question
    trace,          \* the stages executed so far in the current run, in order
    fail_log,       \* the stage of every failure branch taken in the current run
    runs,           \* number of process_question calls started
    writers,        \* direct callers of add_interaction: caller -> position and locals
    write_order,    \* the callers whose save_memory has run, in order
    mem_read,       \* the last direct call of load_memory / get_recent_interactions
    conc,           \* concurrent process_question calls: call -> position, locals, result
    heap,           \* the list and dict objects that Contexts refer to and change in place
    llm_calls,      \* the calls of the translation service in the current run, with its answers
    checked,        \* the last call of check_for_errors: its argument and the label returned
    first,          \* what the first of two identical process_question calls returned and saw
    db,             \* seed_database: table -> the rows committed to it
    seed,           \* seed_database: position of the call, number of calls, messages printed
    fs,             \* the file system: the file a path names -> its content
    path_calls      \* the user ids add_interaction was called with, in order

vars == <<sql_query, exec_pc, is_safe, exec_result, store_log, store_replies,
          sessions_acquired, sessions_open, memory_files, ctx, pc, result, trace, fail_log,
          runs, writers, write_order, mem_read, conc, heap, llm_calls, checked,
          first, db, seed, fs, path_calls>>

exec_vars == <<sql_query, exec_pc, is_safe, exec_result>>
store_vars == <<store_log, store_replies, sessions_acquired, sessions_open>>
flow_vars == <<memory_files, ctx, pc, result, trace, fail_log, runs>>
run_vars == <<ctx, pc, result, trace, fail_log, runs>>
mem_vars == <<writers, write_order, mem_read>>
conc_vars == <<conc, heap>>
hist_vars == <<llm_calls, checked, first>>
seed_vars == <<db, seed>>
path_vars == <<fs, path_calls>>

(***************************************************************************)
(* Bounds                                                                  *)
(***************************************************************************)
MaxWords == 1       \* (separator, word) pairs after the head of a query
MaxRows == 2        \* rows a query can return
MaxRuns == 1        \* process_question calls in one behaviour

\* Python's None: distinct from every text and every list of the model.
None == <<"None">>

(***************************************************************************)
(* Text helpers (str.lower, str.split, str.strip, str.startswith, ...)     *)
(***************************************************************************)
UpperToLower ==
    ("A" :> "a") @@ ("B" :> "b") @@ ("C" :> "c") @@ ("D" :> "d") @@
    ("E" :> "e") @@ ("F" :> "f") @@ ("G" :> "g") @@ ("H" :> "h") @@
    ("I" :> "i") @@ ("J" :> "j") @@ ("K" :> "k") @@ ("L" :> "l") @@
    ("M" :> "m") @@ ("N" :> "n") @@ ("O" :> "o") @@ ("P" :> "p") @@
    ("Q" :> "q") @@ ("R" :> "r") @@ ("S" :> "s") @@ ("T" :> "t") @@
    ("U" :> "u") @@ ("V" :> "v") @@ ("W" :> "w") @@ ("X" :> "x") @@
    ("Y" :> "y") @@ ("Z" :> "z")

LowerChar(c) == IF c \in DOMAIN UpperToLower THEN UpperToLower[c] ELSE c

\* str.lower()
Lower(s) == [i \in 1..Len(s) |-> LowerChar(s[i])]

\* the characters str.split() and str.strip() treat as whitespace
Whitespace == {" ", "\n", "\t"}

RECURSIVE LStrip(_)
LStrip(s) ==
    IF s # <<>> /\ Head(s) \in Whitespace THEN LStrip(Tail(s)) ELSE s

RECURSIVE RStrip(_)
RStrip(s) ==
    IF s # <<>> /\ s[Len(s)] \in Whitespace
    THEN RStrip(SubSeq(s, 1, Len(s) - 1))
    ELSE s

\* str.strip()
Strip(s) == RStrip(LStrip(s))

\* str.startswith(p)
StartsWith(s, p) == Len(s) >= Len(p) /\ SubSeq(s, 1, Len(p)) = p

\* str.endswith(p)
EndsWith(s, p) ==
    Len(s) >= Len(p) /\ SubSeq(s, Len(s) - Len(p) + 1, Len(s)) = p

\* str.split() scanning from position i with the current token cur
RECURSIVE SplitFrom(_, _, _)
SplitFrom(s, i, cur) ==
    IF i > Len(s)
    THEN IF cur = <<>> THEN <<>> ELSE <<cur>>
    ELSE IF s[i] \in Whitespace
         THEN IF cur = <<>>
              THEN SplitFrom(s, i + 1, <<>>)
              ELSE <<cur>> \o SplitFrom(s, i + 1, <<>>)
         ELSE SplitFrom(s, i + 1, Append(cur, s[i]))

\* str.split(): the maximal runs of non-whitespace characters
Split(s) == SplitFrom(s, 1, <<>>)

\* x in list
InList(x, l) == \E i \in 1..Len(l) : l[i] = x

(***************************************************************************)
(* SQLExecutor.validate_sql                                                *)
(***************************************************************************)
kw_select == <<"s","e","l","e","c","t">>
kw_drop == <<"d","r","o","p">>
kw_delete == <<"d","e","l","e","t","e">>
kw_truncate == <<"t","r","u","n","c","a","t","e">>
kw_update == <<"u","p","d","a","t","e">>
kw_insert == <<"i","n","s","e","r","t">>
kw_alter == <<"a","l","t","e","r">>
kw_create == <<"c","r","e","a","t","e">>
kw_grant == <<"g","r","a","n","t">>
kw_revoke == <<"r","e","v","o","k","e">>
kw_commit == <<"c","o","m","m","i","t">>
kw_rollback == <<"r","o","l","l","b","a","c","k">>
kw_begin == <<"b","e","g","i","n">>
kw_end == <<"e","n","d">>
kw_vacuum == <<"v","a","c","u","u","m">>

dangerous_keywords ==
    <<kw_drop, kw_delete, kw_truncate, kw_update, kw_insert, kw_alter,
      kw_create, kw_grant, kw_revoke, kw_commit, kw_rollback, kw_begin,
      kw_end, kw_vacuum>>

\* the first loop of validate_sql: some keyword is one of sql_lower.split()
has_dangerous_keyword(q) ==
    LET tokens == Split(Lower(q)) IN
    \E k \in 1..Len(dangerous_keywords) :
        InList(dangerous_keywords[k], tokens)

\* variant: "select" is looked for anywhere in the query ("select" in sql_lower)
is_select_anywhere(q) ==
    LET l == Lower(q) IN
    \E i \in 1..Len(l) :
        i + Len(kw_select) - 1 <= Len(l)
        /\ SubSeq(l, i, i + Len(kw_select) - 1) = kw_select

\* the second check of validate_sql: sql_lower.strip().startswith("select")
is_select(q) == StartsWith(Strip(Lower(q)), kw_select)

validate_sql(q) ==
    IF has_dangerous_keyword(q) THEN FALSE
    ELSE IF ~is_select(q) THEN FALSE
    ELSE TRUE

(***************************************************************************)
(* SQLExecutor.execute_sql                                                 *)
(***************************************************************************)
\* what the store answers to session.execute(text(q)) followed by
\* result.fetchall() and the DataFrame conversion
AllRows == [i \in 1..MaxRows |-> "row" \o ToString(i)]
Keys == <<"id", "nome">>
StoreOutcomes ==
    { [kind |-> "rows", rows |-> SubSeq(AllRows, 1, n), keys |-> Keys] :
        n \in 0..MaxRows }
    \cup { [kind |-> "SQLAlchemyError", msg |-> <<"connection refused">>],
           [kind |-> "Exception", msg |-> <<"Length mismatch">>] }

\* variant: a failure carries empty lists instead of None
failure_result_empty_lists(error_msg) ==
    [success |-> FALSE, error |-> error_msg, data |-> <<>>,
     columns |-> <<>>, row_count |-> 0]

\* the dictionary returned on each failure path
failure_result(error_msg) ==
    [success |-> FALSE, error |-> error_msg, data |-> None,
     columns |-> None, row_count |-> 0]

\* variant: an empty result is reported as a failure
run_query_empty_fails(out) ==
    IF out.kind = "rows"
    THEN IF out.rows = <<>>
         THEN failure_result(<<"No rows returned">>)
         ELSE [success |-> TRUE, data |-> out.rows, columns |-> out.keys,
               row_count |-> Len(out.rows)]
    ELSE IF out.kind = "SQLAlchemyError"
    THEN failure_result(<<"Database error: ">> \o out.msg)
    ELSE failure_result(<<"Unexpected error: ">> \o out.msg)

\* the try block of execute_sql, given the store's answer
run_query(out) ==
    IF out.kind = "rows"
    THEN IF out.rows = <<>>
         THEN [success |-> TRUE, data |-> <<>>, columns |-> out.keys,
               row_count |-> 0]
         ELSE [success |-> TRUE, data |-> out.rows, columns |-> out.keys,
               row_count |-> Len(out.rows)]
    ELSE IF out.kind = "SQLAlchemyError"
    THEN failure_result(<<"Database error: ">> \o out.msg)
    ELSE failure_result(<<"Unexpected error: ">> \o out.msg)

\* variant: the session is obtained before the query is validated
execute_sql_call_session_first(q, out) ==
    IF ~validate_sql(q)
    THEN [is_safe |-> FALSE, raised |-> FALSE, exc |-> <<>>,
          ret |-> failure_result(<<"SQL query failed validation">>),
          handed |-> <<>>, acquired |-> 1, closed |-> 1]
    ELSE [is_safe |-> TRUE, raised |-> FALSE, exc |-> <<>>,
          ret |-> run_query(out), handed |-> <<q>>, acquired |-> 1,
          closed |-> 1]

\* variant: the session is closed at the end of the try block only, so the
\* except branches leave it checked out
execute_sql_call_close_in_try(q, out) ==
    IF ~validate_sql(q)
    THEN [is_safe |-> FALSE, raised |-> FALSE, exc |-> <<>>,
          ret |-> failure_result(<<"SQL query failed validation">>),
          handed |-> <<>>, acquired |-> 0, closed |-> 0]
    ELSE [is_safe |-> TRUE, raised |-> FALSE, exc |-> <<>>,
          ret |-> run_query(out), handed |-> <<q>>, acquired |-> 1,
          closed |-> IF out.kind = "rows" THEN 1 ELSE 0]

\* One call of SQLExecutor.execute_sql(q) against a store answering out:
\*   is_safe   what validate_sql(q) returned
\*   raised    whether an exception left the method (no path raises: every
\*             exception of the try block is caught and turned into a result)
\*   exc       the text of that exception
\*   ret       the returned dictionary
\*   handed    the statements passed to session.execute
\*   acquired  sessions obtained from get_db_session
\*   closed    sessions closed by the finally clause
execute_sql_call(q, out) ==
    IF ~validate_sql(q)
    THEN [is_safe |-> FALSE, raised |-> FALSE, exc |-> <<>>,
          ret |-> failure_result(<<"SQL query failed validation">>),
          handed |-> <<>>, acquired |-> 0, closed |-> 0]
    ELSE [is_safe |-> TRUE, raised |-> FALSE, exc |-> <<>>,
          ret |-> run_query(out), handed |-> <<q>>, acquired |-> 1,
          closed |-> 1]

(***************************************************************************)
(* Query strings given to the executor: a head followed by at most         *)
(* MaxWords (separator, word) pairs.                                       *)
(***************************************************************************)
Heads ==
    { <<"s","e","l","e","c","t"," ","1">>,
      <<" ","\n","S","E","L","E","C","T"," ","x">>,
      <<>>,
      <<"s","h","o","w"," ","x">>,
      <<"(","s","e","l","e","c","t"," ","1">> }
Seps ==
    { <<>>, <<" ">>, <<";">>, <<"(">> }
Words ==
    { dangerous_keywords[k] : k \in 1..Len(dangerous_keywords) }
    \cup { <<"D","R","O","P">>, <<"x">> }

RECURSIVE Suffixes(_)
Suffixes(k) ==
    IF k = 0 THEN { <<>> }
    ELSE Suffixes(k - 1) \cup
         { sep \o w \o rest : sep \in Seps, w \in Words,
                               rest \in Suffixes(k - 1) }

Queries == { h \o s : h \in Heads, s \in Suffixes(MaxWords) }

(***************************************************************************)
(* Context (mcp.py)                                                        *)
(***************************************************************************)
Users == {"u1", "u2"}
Questions == { <<"Q1">>, <<"Q2">> }

\* an empty dict
EmptyDict == [k \in {} |-> k]

\* Context(user_id=..., question=...): every other field at its default
NewContext(user_id, question) ==
    [user_id |-> user_id, question |-> question, sql_query |-> <<>>,
     is_query_validated |-> FALSE, query_results |-> EmptyDict,
     response |-> <<>>, conversation_history |-> <<>>, errors |-> <<>>,
     metadata |-> EmptyDict]

\* variant: the new entry replaces the list
add_error_replace(c, agent_name, error_message, error_type) ==
    [c EXCEPT !.errors =
        <<[agent |-> agent_name, message |-> error_message,
           type |-> error_type]>>]

\* Context.add_error
add_error(c, agent_name, error_message, error_type) ==
    [c EXCEPT !.errors =
        Append(@, [agent |-> agent_name, message |-> error_message,
                   type |-> error_type])]

\* Context.has_errors
has_errors(c) == Len(c.errors) > 0

\* variant: the oldest error is returned (self.errors[0])
get_first_error(c) ==
    IF c.errors # <<>> THEN c.errors[1] ELSE None

\* Context.get_last_error
get_last_error(c) ==
    IF c.errors # <<>> THEN c.errors[Len(c.errors)] ELSE None

\* Context.update_metadata
update_metadata(c, key, value) ==
    [c EXCEPT !.metadata =
        [k \in DOMAIN @ \cup {key} |-> IF k = key THEN value ELSE @[k]]]

(***************************************************************************)
(* MemoryManager (memory_manager.py)                                       *)
(*                                                                         *)
(* A file is [state, doc]: state is "absent" (no file), "corrupt" (not     *)
(* JSON) or "ok" (doc is the stored document).                             *)
(***************************************************************************)
DefaultLimit == 5

\* MemoryManager.create_empty_memory at time now
create_empty_memory(now) ==
    [conversations |-> <<>>, preferences |-> EmptyDict, last_updated |-> now]

AbsentFile == [state |-> "absent", doc |-> create_empty_memory(0)]
CorruptFile == [state |-> "corrupt", doc |-> create_empty_memory(0)]

\* how the file system answers one open(): "ok" or "OSError"
IOOutcomes == {"ok", "OSError"}

\* variant: the JSONDecodeError of an undecodable file is not caught
load_memory_no_except(file, io, now) ==
    IF file.state = "absent"
    THEN [raised |-> FALSE, exc |-> <<>>, doc |-> create_empty_memory(now)]
    ELSE IF io = "OSError"
    THEN [raised |-> TRUE, exc |-> <<"[Errno 13] Permission denied">>,
          doc |-> create_empty_memory(now)]
    ELSE IF file.state = "corrupt"
    THEN [raised |-> TRUE, exc |-> <<"Expecting value: line 1 column 1">>,
          doc |-> create_empty_memory(now)]
    ELSE [raised |-> FALSE, exc |-> <<>>, doc |-> file.doc]

\* MemoryManager.load_memory: [raised, exc, doc]; only JSONDecodeError is
\* caught, an OSError of open() leaves the method
load_memory(file, io, now) ==
    IF file.state = "absent"
    THEN [raised |-> FALSE, exc |-> <<>>, doc |-> create_empty_memory(now)]
    ELSE IF io = "OSError"
    THEN [raised |-> TRUE, exc |-> <<"[Errno 13] Permission denied">>,
          doc |-> create_empty_memory(now)]
    ELSE IF file.state = "corrupt"
    THEN [raised |-> FALSE, exc |-> <<>>, doc |-> create_empty_memory(now)]
    ELSE [raised |-> FALSE, exc |-> <<>>, doc |-> file.doc]

\* l[-limit:]
LastN(l, limit) ==
    IF limit = 0 \/ limit >= Len(l) THEN l
    ELSE SubSeq(l, Len(l) - limit + 1, Len(l))

\* MemoryManager.get_recent_interactions: [raised, exc, value]
get_recent_interactions(file, io, now, limit) ==
    LET m == load_memory(file, io, now) IN
    IF m.raised THEN [raised |-> TRUE, exc |-> m.exc, value |-> <<>>]
    ELSE [raised |-> FALSE, exc |-> <<>>,
          value |-> IF m.doc.conversations # <<>>
                    THEN LastN(m.doc.conversations, limit) ELSE <<>>]

\* how one write of the file ends: "ok", "open_error" (open(path, "w")
\* fails, file untouched) or "dump_error" (the file was truncated by open
\* and json.dump failed part-way)
WriteOutcomes == {"ok", "open_error", "dump_error"}

\* variant: the write appends the new record to what the file holds at the
\* time of the write instead of overwriting the whole document
save_memory_file_append(file, memory, wr) ==
    IF wr = "ok"
    THEN [state |-> "ok",
          doc |-> [memory EXCEPT !.conversations =
                     (IF file.state = "ok" THEN file.doc.conversations
                      ELSE <<>>)
                     \o <<memory.conversations[Len(memory.conversations)]>>]]
    ELSE IF wr = "open_error" THEN file
    ELSE CorruptFile

\* MemoryManager.save_memory: the file after the call; every exception is
\* caught and logged, nothing is raised
save_memory_file(file, memory, wr) ==
    IF wr = "ok" THEN [state |-> "ok", doc |-> memory]
    ELSE IF wr = "open_error" THEN file
    ELSE CorruptFile

\* MemoryManager.add_interaction up to the call of save_memory: the document
\* is loaded and the new interaction appended to it; [raised, exc, memory]
add_interaction_build(file, io, now, question, query, results, response) ==
    LET m == load_memory(file, io, now) IN
    IF m.raised THEN [raised |-> TRUE, exc |-> m.exc, memory |-> m.doc]
    ELSE IF "success" \notin DOMAIN results
    THEN [raised |-> TRUE, exc |-> <<"'success'">>, memory |-> m.doc]
    ELSE
      LET interaction ==
            [timestamp |-> now, question |-> question, sql_query |-> query,
             results_summary |->
                [success |-> results.success,
                 row_count |-> results.row_count,
                 error |-> IF "error" \in DOMAIN results
                           THEN results.error ELSE None],
             response |-> response]
      IN [raised |-> FALSE, exc |-> <<>>,
          memory |-> [m.doc EXCEPT !.conversations = Append(@, interaction),
                                   !.last_updated = now]]

\* MemoryManager.add_interaction: [raised, exc, file]
add_interaction(file, io, wr, now, question, query, results, response) ==
    LET b == add_interaction_build(file, io, now, question, query, results,
                                   response)
    IN IF b.raised THEN [raised |-> TRUE, exc |-> b.exc, file |-> file]
       ELSE [raised |-> FALSE, exc |-> <<>>,
             file |-> save_memory_file(file, b.memory, wr)]

(***************************************************************************)
(* SQLGenerator.generate_sql (sql_generator.py)                            *)
(***************************************************************************)
\* the grave accent character of a Markdown code fence
BT == "BT"
fence_sql == <<BT,BT,BT,"s","q","l">>
fence == <<BT,BT,BT>>

\* the clean-up of the text returned by the chain
clean_sql(raw) ==
    LET s1 == Strip(raw)
        s2 == IF StartsWith(s1, fence_sql)
              THEN SubSeq(s1, Len(fence_sql) + 1, Len(s1)) ELSE s1
        s3 == IF EndsWith(s2, fence)
              THEN SubSeq(s2, 1, Len(s2) - Len(fence)) ELSE s2
    IN Strip(s3)

\* what the translation service answers to the generation prompt
LLMOutputs ==
    { <<"s","e","l","e","c","t"," ","1">>,
      <<BT,BT,BT,"s","q","l","\n","S","E","L","E","C","T"," ","x","\n",BT,BT,BT>>,
      <<" ","d","r","o","p"," ","x","\n">>,
      <<>> }
GenerateOutcomes ==
    { [kind |-> "text", text |-> t] : t \in LLMOutputs }
    \cup { [kind |-> "raise", exc |-> <<"llm unavailable">>] }

\* SQLGenerator.generate_sql: [raised, exc, value]; the exception of the
\* chain is logged and raised again
generator_generate_sql(question, llm) ==
    IF llm.kind = "raise"
    THEN [raised |-> TRUE, exc |-> llm.exc, value |-> <<>>]
    ELSE [raised |-> FALSE, exc |-> <<>>, value |-> clean_sql(llm.text)]

(***************************************************************************)
(* ResponseFormatter.format_response (response_formatter.py)               *)
(***************************************************************************)
\* what the translation service answers to the formatting prompt
\* (an answer, an answer without any text, or an exception)
FormatOutcomes ==
    { [kind |-> "text"], [kind |-> "empty"],
      [kind |-> "raise", exc |-> <<"llm unavailable">>] }

\* the lines "Row i: <row>" for the rows i..Len(data)
RECURSIVE row_lines(_, _)
row_lines(data, i) ==
    IF i > Len(data) THEN <<>>
    ELSE <<"Row ", ToString(i), ": ", data[i], "\n">> \o row_lines(data, i + 1)

\* the text of the results placed in the prompt
results_str(results) ==
    IF results.success
    THEN IF results.row_count = 0 THEN <<"No results found.">>
         ELSE <<"Results:\n">> \o row_lines(results.data, 1)
    ELSE <<"Error: ">> \o results.error

\* the answer of the chain: a function of the prompt's three inputs
chain_answer(question, query, results) ==
    <<"Answer to ">> \o question \o <<" using ">> \o query \o <<": ">>
        \o results_str(results)

\* variant: the exception of the chain is raised to the caller
formatter_format_response_reraise(question, query, results, llm) ==
    IF "success" \notin DOMAIN results
    THEN [raised |-> TRUE, exc |-> <<"'success'">>, value |-> <<>>,
          called |-> FALSE]
    ELSE IF llm.kind = "text"
    THEN [raised |-> FALSE, exc |-> <<>>, called |-> TRUE,
          value |-> chain_answer(question, query, results)]
    ELSE IF llm.kind = "empty"
    THEN [raised |-> FALSE, exc |-> <<>>, called |-> TRUE, value |-> <<>>]
    ELSE [raised |-> TRUE, exc |-> llm.exc, value |-> <<>>, called |-> TRUE]

\* ResponseFormatter.format_response: [raised, exc, value, called];
\* results["success"] is read before the try block, and called tells whether
\* the chain of the translation service was invoked
formatter_format_response(question, query, results, llm) ==
    IF "success" \notin DOMAIN results
    THEN [raised |-> TRUE, exc |-> <<"'success'">>, value |-> <<>>,
          called |-> FALSE]
    ELSE IF llm.kind = "text"
    THEN [raised |-> FALSE, exc |-> <<>>, called |-> TRUE,
          value |-> chain_answer(question, query, results)]
    ELSE IF llm.kind = "empty"
    THEN [raised |-> FALSE, exc |-> <<>>, called |-> TRUE, value |-> <<>>]
    ELSE [raised |-> FALSE, exc |-> <<>>, called |-> TRUE,
          value |->
            IF results.success
            THEN IF results.row_count = 0
                 THEN <<"No results were found that match your query.">>
                 ELSE <<"Found ", ToString(results.row_count),
                        " results. Here's the data: ">> \o results.data
            ELSE <<"There was an error processing your query: ">>
                    \o results.error]

(***************************************************************************)
(* The stages of SQLAgentGraph (flow.py), each a function of the Context   *)
(* and of what its collaborator answered.                                  *)
(***************************************************************************)
\* variant: a failed history read is tagged with the name of its collaborator
stage_load_context_tag_memory(c, recent) ==
    IF ~recent.raised
    THEN update_metadata(
            update_metadata(
                [c EXCEPT !.conversation_history = recent.value],
                "context_loaded", TRUE),
            "history_length", Len(recent.value))
    ELSE add_error(c, "memory_manager",
                   <<"Error loading context: ">> \o recent.exc, "general")

\* SQLAgentGraph.load_context
stage_load_context(c, recent) ==
    IF ~recent.raised
    THEN update_metadata(
            update_metadata(
                [c EXCEPT !.conversation_history = recent.value],
                "context_loaded", TRUE),
            "history_length", Len(recent.value))
    ELSE add_error(c, "load_context",
                   <<"Error loading context: ">> \o recent.exc, "general")

\* variant: a failed generation leaves a placeholder query in the context
stage_generate_sql_placeholder(c, gen) ==
    IF ~gen.raised
    THEN [c EXCEPT !.sql_query = gen.value]
    ELSE [add_error(c, "generate_sql",
                    <<"Error generating SQL: ">> \o gen.exc, "general")
          EXCEPT !.sql_query = <<"select", " ", "1">>]

\* variant: the query carries a note when the user has a history
stage_generate_sql_with_history(c, gen) ==
    IF ~gen.raised
    THEN [c EXCEPT !.sql_query =
            IF c.conversation_history # <<>>
            THEN gen.value \o <<" ", "-", "-", "h">>
            ELSE gen.value]
    ELSE add_error(c, "generate_sql",
                   <<"Error generating SQL: ">> \o gen.exc, "general")

\* variant: the query carries the id of the user it was generated for
stage_generate_sql_per_user(c, gen) ==
    IF ~gen.raised
    THEN [c EXCEPT !.sql_query = gen.value \o <<" ", "-", "-", c.user_id>>]
    ELSE add_error(c, "generate_sql",
                   <<"Error generating SQL: ">> \o gen.exc, "general")

\* SQLAgentGraph.generate_sql
stage_generate_sql(c, gen) ==
    IF ~gen.raised
    THEN [c EXCEPT !.sql_query = gen.value]
    ELSE add_error(c, "generate_sql",
                   <<"Error generating SQL: ">> \o gen.exc, "general")

\* variant: the dictionary of a failed execution is not stored
stage_execute_sql_drop_failure(c, call) ==
    IF ~call.raised
    THEN IF call.ret.success
         THEN [c EXCEPT !.query_results = call.ret,
                        !.is_query_validated = call.ret.success]
         ELSE add_error(c, "execute_sql",
                        <<"Query execution failed: ">> \o call.ret.error,
                        "database_error")
    ELSE add_error(c, "execute_sql",
                   <<"Error executing SQL: ">> \o call.exc, "general")

\* variant: the query counts as validated as soon as the executor returned
stage_execute_sql_validated_on_return(c, call) ==
    IF ~call.raised
    THEN LET c1 == [c EXCEPT !.query_results = call.ret,
                             !.is_query_validated = TRUE]
         IN IF call.ret.success THEN c1
            ELSE add_error(c1, "execute_sql",
                           <<"Query execution failed: ">> \o call.ret.error,
                           "database_error")
    ELSE add_error(c, "execute_sql",
                   <<"Error executing SQL: ">> \o call.exc, "general")

\* variant: a failed execution is stored without an error entry
stage_execute_sql_silent_failure(c, call) ==
    IF ~call.raised
    THEN [c EXCEPT !.query_results = call.ret,
                   !.is_query_validated = call.ret.success]
    ELSE add_error(c, "execute_sql",
                   <<"Error executing SQL: ">> \o call.exc, "general")

\* SQLAgentGraph.execute_sql
stage_execute_sql(c, call) ==
    IF ~call.raised
    THEN LET c1 == [c EXCEPT !.query_results = call.ret,
                             !.is_query_validated = call.ret.success]
         IN IF call.ret.success THEN c1
            ELSE add_error(c1, "execute_sql",
                           <<"Query execution failed: ">> \o call.ret.error,
                           "database_error")
    ELSE add_error(c, "execute_sql",
                   <<"Error executing SQL: ">> \o call.exc, "general")

\* variant: with errors present the response is left as it is
stage_format_response_no_apology(c, llm) ==
    IF has_errors(c) THEN c
    ELSE LET f == formatter_format_response(c.question, c.sql_query,
                                            c.query_results, llm)
         IN IF ~f.raised
            THEN [c EXCEPT !.response = f.value]
            ELSE [add_error(c, "format_response",
                            <<"Error formatting response: ">> \o f.exc,
                            "general")
                  EXCEPT !.response =
                    <<"I'm sorry, but I encountered an error while formatting the response.">>]

\* SQLAgentGraph.format_response
stage_format_response(c, llm) ==
    IF has_errors(c)
    THEN LET last_error == get_last_error(c)
             \* last_error is None, hence false, exactly when errors is empty
             error_msg == IF c.errors # <<>> THEN last_error.message
                          ELSE <<"An unknown error occurred">>
         IN [c EXCEPT !.response =
                <<"I'm sorry, but I encountered an error: ">> \o error_msg]
    ELSE LET f == formatter_format_response(c.question, c.sql_query,
                                            c.query_results, llm)
         IN IF ~f.raised
            THEN [c EXCEPT !.response = f.value]
            ELSE [add_error(c, "format_response",
                            <<"Error formatting response: ">> \o f.exc,
                            "general")
                  EXCEPT !.response =
                    <<"I'm sorry, but I encountered an error while formatting the response.">>]

\* the calls of the translation service made by format_response: none on
\* the apology branch, one when the formatter reaches its chain
format_response_llm_calls(c, llm) ==
    IF has_errors(c) THEN <<>>
    ELSE IF formatter_format_response(c.question, c.sql_query,
                                      c.query_results, llm).called
    THEN <<[stage |-> "format_response", outcome |-> llm]>>
    ELSE <<>>

\* variant: the exception of add_interaction is logged only
stage_save_memory_log_only(c, added) == c

\* variant: the new interaction is also appended to the loaded history
stage_save_memory_extends_history(c, added) ==
    IF ~added.raised
    THEN [c EXCEPT !.conversation_history =
            Append(@, [question |-> c.question, response |-> c.response])]
    ELSE add_error(c, "save_memory",
                   <<"Error saving memory: ">> \o added.exc, "general")

\* SQLAgentGraph.save_memory
stage_save_memory(c, added) ==
    IF ~added.raised THEN c
    ELSE add_error(c, "save_memory",
                   <<"Error saving memory: ">> \o added.exc, "general")

\* variant: a context whose query is not validated counts as failed
check_for_errors_unvalidated(c) ==
    IF ~c.is_query_validated THEN "error" ELSE "success"

\* SQLAgentGraph.check_for_errors: the label it returns
check_for_errors(c) == IF has_errors(c) THEN "error" ELSE "success"

\* SQLAgentGraph.check_for_errors: the context after the call; the function
\* reads has_errors and assigns nothing
check_for_errors_context(c) == c

\* no call of check_for_errors yet
NoCheck == [context |-> NewContext("anonymous", <<>>), label |-> "none"]

(***************************************************************************)
(* SQLAgentGraph.build_graph                                               *)
(***************************************************************************)
Stages ==
    {"load_context", "generate_sql", "execute_sql", "format_response",
     "save_memory"}
END == "END"
EntryPoint == "load_context"

\* graph.add_edge
Edges ==
    { <<"load_context", "generate_sql">>, <<"generate_sql", "execute_sql">>,
      <<"execute_sql", "format_response">>,
      <<"format_response", "save_memory">>, <<"save_memory", END>> }

\* variant: a failed execution skips the formatting node
ConditionalEdges_exec_error_skips ==
    [n \in {"generate_sql", "execute_sql"} |->
        IF n = "generate_sql"
        THEN [l \in {"error", "success"} |->
                IF l = "error" THEN "format_response" ELSE "execute_sql"]
        ELSE [l \in {"error", "success"} |->
                IF l = "error" THEN "save_memory" ELSE "format_response"]]

\* graph.add_conditional_edges: node -> (label of check_for_errors -> node)
ConditionalEdges ==
    [n \in {"generate_sql", "execute_sql"} |->
        IF n = "generate_sql"
        THEN [l \in {"error", "success"} |->
                IF l = "error" THEN "format_response" ELSE "execute_sql"]
        ELSE [l \in {"error", "success"} |-> "format_response"]]

\* variant: a failed execution is routed back to the generation node
NextNode_retry(n, c) ==
    IF n = "execute_sql" /\ check_for_errors(c) = "error"
    THEN "generate_sql"
    ELSE IF n \in DOMAIN ConditionalEdges
    THEN ConditionalEdges[n][check_for_errors(c)]
    ELSE CHOOSE m \in Stages \cup {END} : <<n, m>> \in Edges

\* variant: after a failed generation the formatting node runs while the
\* execution node is still to run, and the execution node runs after it
NextNode_execute_pending(n, c) ==
    IF n = "format_response" /\ has_errors(c)
       /\ DOMAIN c.query_results = {} /\ c.errors[1].agent # "save_memory"
    THEN "execute_sql"
    ELSE IF n = "execute_sql" /\ c.response # <<>>
    THEN "save_memory"
    ELSE IF n \in DOMAIN ConditionalEdges
    THEN ConditionalEdges[n][check_for_errors(c)]
    ELSE CHOOSE m \in Stages \cup {END} : <<n, m>> \in Edges

\* variant: a failure of load_context ends the pipeline early
NextNode_load_gate(n, c) ==
    IF n = "load_context" /\ check_for_errors(c) = "error"
    THEN "format_response"
    ELSE IF n \in DOMAIN ConditionalEdges
    THEN ConditionalEdges[n][check_for_errors(c)]
    ELSE CHOOSE m \in Stages \cup {END} : <<n, m>> \in Edges

\* The node run after node n has returned c.  A node with conditional edges
\* is routed by the label check_for_errors returns; the other nodes follow
\* their edge.
NextNode(n, c) ==
    IF n \in DOMAIN ConditionalEdges
    THEN ConditionalEdges[n][check_for_errors(c)]
    ELSE CHOOSE m \in Stages \cup {END} : <<n, m>> \in Edges

\* variant: success reports that the query was validated
process_question_result_validated(question, final_context) ==
    [question |-> question, sql_query |-> final_context.sql_query,
     response |-> final_context.response,
     success |-> final_context.is_query_validated,
     errors |-> final_context.errors]

\* SQLAgentGraph.process_question: the dictionary built from the final context
process_question_result(question, final_context) ==
    [question |-> question, sql_query |-> final_context.sql_query,
     response |-> final_context.response,
     success |-> ~has_errors(final_context),
     errors |-> final_context.errors]

(***************************************************************************)
(* Direct callers of MemoryManager: threads or processes sharing the       *)
(* memory directory.                                                       *)
(***************************************************************************)
MaxStored == 2      \* interaction records in a history file at the start
MaxLimit == 3       \* largest limit passed to get_recent_interactions

Callers == {"w1", "w2"}

\* the arguments a caller passes to add_interaction
CallerQuestion == [w \in Callers |-> <<"Q", w>>]
CallerQuery == <<"s","e","l","e","c","t"," ","1">>
CallerResults == run_query([kind |-> "rows", rows |-> <<"row1">>, keys |-> Keys])
CallerResponse == <<"It is row1.">>

\* a readable history file holding n interactions
RECURSIVE StoredFile(_)
StoredFile(n) ==
    IF n = 0 THEN [state |-> "ok", doc |-> create_empty_memory(0)]
    ELSE add_interaction(StoredFile(n - 1), "ok", "ok", 0,
                         <<"H", ToString(n)>>, CallerQuery, CallerResults,
                         <<"It is row1.">>).file

\* what the memory directory may hold for a user
MemFiles ==
    {AbsentFile, CorruptFile} \cup { StoredFile(n) : n \in 0..MaxStored }

\* no direct call of the MemoryManager is in progress
NoRead ==
    [op |-> "none", user |-> "", limit |-> 0, file |-> AbsentFile,
     io |-> "ok", raised |-> FALSE, value |-> <<>>]
IdleWriter ==
    [pc |-> "idle", user |-> "", memory |-> create_empty_memory(0),
     wrote |-> "none"]
MemIdle ==
    /\ writers = [w \in Callers |-> IdleWriter]
    /\ write_order = <<>>
    /\ mem_read = NoRead

(***************************************************************************)
(* Concurrent calls of process_question on the one SQLAgentGraph of the    *)
(* API (api/app.py).  The errors list and the metadata dict of a Context   *)
(* are objects changed in place (list.append, dict item assignment): the   *)
(* Context holds references to them.                                       *)
(***************************************************************************)
RunIds == {"r1", "r2"}
RunQuestion == ("r1" :> <<"Q1">>) @@ ("r2" :> <<"Q2">>)

\* variant: the mutable defaults are single objects shared by every Context
context_refs_shared(r) ==
    [errors |-> "errors", metadata |-> "metadata"]

\* Context(user_id=..., question=...) of call r: default_factory builds a
\* new list and a new dict for each instance
context_refs(r) ==
    [errors |-> "errors of " \o r, metadata |-> "metadata of " \o r]

ErrorRefs == { context_refs(r).errors : r \in RunIds }
MetadataRefs == { context_refs(r).metadata : r \in RunIds }

\* the fields of a Context held by value
Fields(c) == [c EXCEPT !.errors = <<>>, !.metadata = EmptyDict]

\* the Context of call r as its stages see it
ContextOf(r) ==
    [conc[r].ctx EXCEPT !.errors = heap[context_refs(r).errors],
                        !.metadata = heap[context_refs(r).metadata]]

\* the objects after a stage of call r returned context c
Put(r, c) ==
    [heap EXCEPT ![context_refs(r).errors] = c.errors,
                 ![context_refs(r).metadata] = c.metadata]

\* a call that is inside graph.invoke
InProgress(r) == conc[r].pc \in Stages \cup {END}

IdleRun ==
    [pc |-> "idle", ctx |-> Fields(NewContext("anonymous", <<>>)),
     result |-> EmptyDict, fail_log |-> <<>>, overlapped |-> FALSE]

\* no concurrent call has been made
ConcIdle ==
    /\ conc = [r \in RunIds |-> IdleRun]
    /\ heap = [ref \in ErrorRefs \cup MetadataRefs |->
                 IF ref \in ErrorRefs THEN <<>> ELSE EmptyDict]

(***************************************************************************)
(* seed_database (database/seed.py), called by startup_event (api/app.py)  *)
(***************************************************************************)
MaxSeedCalls == 3           \* calls of seed_database in one behaviour
NClientes == 10             \* fixture rows of the clients table
NProdutos == 10             \* fixture rows of the products table
NRandomTransacoes == 30     \* transactions drawn with the random module
NNotebookTransacoes == 3    \* transactions added for the notebook product

\* what the random module yields for the batch of transactions of one call
RandomDraws == {"d1", "d2"}

\* what the store answers to create_all, to the count query and to a commit
SeedOutcomes == {"ok", "error"}

SeedTables == {"clientes", "produtos", "transacoes"}
EmptyDb == [t \in SeedTables |-> {}]

\* variant: the products are added and committed before the clients
SeedOrder_produtos_first == <<"produtos", "clientes", "transacoes">>

\* the order in which seed_database adds and commits its fixture
SeedOrder == <<"clientes", "produtos", "transacoes">>

\* the rows seed_database builds for table t, each named by its content
fixture(t, draw) ==
    IF t = "clientes" THEN [i \in 1..NClientes |-> <<"email", "", i>>]
    ELSE IF t = "produtos" THEN [i \in 1..NProdutos |-> <<"nome", "", i>>]
    ELSE [i \in 1..(NRandomTransacoes + NNotebookTransacoes) |->
            IF i <= NRandomTransacoes THEN <<"random", draw, i>>
            ELSE <<"notebook", draw, i - NRandomTransacoes>>]

\* session.add_all + commit: the rows get the next values of the id column
new_rows(rows, keys) ==
    { [id |-> Cardinality(rows) + i, key |-> keys[i]] : i \in 1..Len(keys) }

\* Cliente.email is unique: committing a client whose email is stored fails
unique_violation(t, rows, keys) ==
    /\ t = "clientes"
    /\ \E r \in rows, i \in 1..Len(keys) : r.key = keys[i]

\* the notebook product is looked up while the transactions are built
notebook_missing(t, d) == t = "transacoes" /\ d["produtos"] = {}

\* the process has not called seed_database and the store is empty
SeedIdle ==
    /\ db = EmptyDb
    /\ seed = [pc |-> "idle", step |-> 0, calls |-> 0, at_call |-> EmptyDb,
               log |-> <<>>]

\* no first call of process_question has been recorded
NoRun ==
    [user_id |-> "anonymous", question |-> <<>>, result |-> EmptyDict,
     llm_calls |-> <<>>, fail_log |-> <<>>, replies |-> <<>>]

HistIdle ==
    /\ llm_calls = <<>>
    /\ checked = NoCheck
    /\ first = NoRun

(***************************************************************************)
(* MemoryManager.get_user_memory_path and the files its paths name         *)
(***************************************************************************)
MaxPathCalls == 3   \* add_interaction calls with a user id of PathUserIds

\* user ids as a request may carry them: any string, "/" being one part
PathUserIds ==
    { <<"u1">>, <<"u2">>, <<"u3">>, <<".", "/", "u1">>,
      <<"..", "/", "memory", "/", "u2">> }

\* MemoryManager.memory_dir
memory_dir == <<"memory">>

\* os.path.join(self.memory_dir, f"{user_id}.json")
get_user_memory_path(user_id) ==
    memory_dir \o <<"/">> \o user_id \o <<".json">>

\* the components of a path: the texts between its "/" parts
RECURSIVE Components(_, _)
Components(path, cur) ==
    IF path = <<>> THEN <<cur>>
    ELSE IF Head(path) = "/" THEN <<cur>> \o Components(Tail(path), <<>>)
    ELSE Components(Tail(path), cur \o <<Head(path)>>)

\* path resolution by the file system, from the working directory: "." names
\* the directory itself, ".." its parent
RECURSIVE Walk(_, _)
Walk(comps, at) ==
    IF comps = <<>> THEN at
    ELSE IF Head(comps) = <<".">> THEN Walk(Tail(comps), at)
    ELSE IF Head(comps) = <<"..">>
    THEN Walk(Tail(comps),
              IF at = <<>> THEN at ELSE SubSeq(at, 1, Len(at) - 1))
    ELSE Walk(Tail(comps), Append(at, Head(comps)))

\* the file that open(path) reaches
Resolve(path) == Walk(Components(path, <<>>), <<>>)

\* the files the user ids of PathUserIds reach
PathFiles == { Resolve(get_user_memory_path(u)) : u \in PathUserIds }

\* the memory directory is empty and add_interaction has not been called
PathIdle ==
    /\ fs = [f \in PathFiles |-> AbsentFile]
    /\ path_calls = <<>>

(***************************************************************************)
(* Initial states                                                          *)
(***************************************************************************)
\* no direct call of the executor is in progress
ExecIdle ==
    /\ sql_query = <<>>
    /\ exec_pc = "idle"
    /\ is_safe = FALSE
    /\ exec_result = EmptyDict

\* the store has been handed nothing and no session is checked out
StoreInit ==
    /\ store_log = <<>>
    /\ store_replies = <<>>
    /\ sessions_acquired = 0
    /\ sessions_open = 0

\* A history file left by an earlier process: one stored interaction.
SeededFile ==
    add_interaction(AbsentFile, "ok", "ok", 0, <<"Q0">>,
                    <<"s","e","l","e","c","t"," ","0">>,
                    run_query([kind |-> "rows", rows |-> <<"row0">>,
                               keys |-> Keys]),
                    <<"It is row0.">>).file

\* what the memory directory may hold for a user when the process starts
InitialFiles == {AbsentFile, CorruptFile, SeededFile}

\* SQLAgentGraph() just constructed: no run started
FlowInit ==
    /\ memory_files \in [Users -> InitialFiles]
    /\ ctx = NewContext("anonymous", <<>>)
    /\ pc = "idle"
    /\ result = EmptyDict
    /\ trace = <<>>
    /\ fail_log = <<>>
    /\ runs = 0

Init ==
    ExecIdle /\ StoreInit /\ FlowInit /\ MemIdle /\ ConcIdle /\ HistIdle
        /\ SeedIdle /\ PathIdle
    /\ PathIdle

\* a caller is about to call SQLExecutor.execute_sql(sql_query)
ExecInit ==
    /\ sql_query \in Queries
    /\ exec_pc = "call"
    /\ is_safe = FALSE
    /\ exec_result = EmptyDict
    /\ StoreInit
    /\ memory_files = [u \in Users |-> AbsentFile]
    /\ ctx = NewContext("anonymous", <<>>)
    /\ pc = "idle"
    /\ result = EmptyDict
    /\ trace = <<>>
    /\ fail_log = <<>>
    /\ runs = 0
    /\ MemIdle
    /\ ConcIdle
    /\ HistIdle
    /\ SeedIdle
    /\ PathIdle

\* each caller is about to call add_interaction for some user
MemInit ==
    /\ ExecIdle
    /\ StoreInit
    /\ memory_files \in [Users -> MemFiles]
    /\ ctx = NewContext("anonymous", <<>>)
    /\ pc = "idle"
    /\ result = EmptyDict
    /\ trace = <<>>
    /\ fail_log = <<>>
    /\ runs = 0
    /\ writers \in [Callers -> { [IdleWriter EXCEPT !.pc = "start", !.user = u] :
                                  u \in Users }]
    /\ write_order = <<>>
    /\ mem_read = NoRead
    /\ ConcIdle
    /\ HistIdle
    /\ SeedIdle
    /\ PathIdle

(***************************************************************************)
(* Actions                                                                 *)
(***************************************************************************)
\* One call of SQLExecutor.execute_sql(sql_query).
CallExecuteSql ==
    /\ exec_pc = "call"
    /\ \E out \in StoreOutcomes :
         LET call == execute_sql_call(sql_query, out) IN
         /\ is_safe' = call.is_safe
         /\ exec_result' = call.ret
         /\ exec_pc' = IF call.raised THEN "raised" ELSE "returned"
         /\ store_log' = store_log \o call.handed
         /\ store_replies' = IF call.handed # <<>>
                              THEN Append(store_replies, out)
                              ELSE store_replies
         /\ sessions_acquired' = sessions_acquired + call.acquired
         /\ sessions_open' = sessions_open + call.acquired - call.closed
    /\ UNCHANGED <<sql_query, flow_vars>>
    /\ UNCHANGED mem_vars
    /\ UNCHANGED conc_vars
    /\ UNCHANGED hist_vars
    /\ UNCHANGED seed_vars
    /\ UNCHANGED path_vars

\* process_question(user_id, question) is called: a fresh Context enters
\* the graph at its entry point.
StartRun(user_id, question) ==
    /\ pc \in {"idle", "returned"}
    /\ runs < MaxRuns
    /\ ctx' = NewContext(user_id, question)
    /\ pc' = EntryPoint
    /\ result' = EmptyDict
    /\ trace' = <<>>
    /\ fail_log' = <<>>
    /\ runs' = runs + 1
    /\ llm_calls' = <<>>
    /\ checked' = NoCheck
    /\ UNCHANGED first
    /\ UNCHANGED <<exec_vars, store_vars, memory_files>>
    /\ UNCHANGED mem_vars
    /\ UNCHANGED conc_vars
    /\ UNCHANGED seed_vars
    /\ UNCHANGED path_vars

\* node load_context
LoadContext ==
    /\ pc = "load_context"
    /\ \E io \in IOOutcomes :
         LET recent == get_recent_interactions(memory_files[ctx.user_id],
                                               io, runs, DefaultLimit)
         IN /\ ctx' = stage_load_context(ctx, recent)
            /\ fail_log' = IF recent.raised
                           THEN Append(fail_log, "load_context")
                           ELSE fail_log
    /\ pc' = NextNode("load_context", ctx')
    /\ trace' = Append(trace, "load_context")
    /\ UNCHANGED <<exec_vars, store_vars, memory_files, result, runs>>
    /\ UNCHANGED mem_vars
    /\ UNCHANGED conc_vars
    /\ UNCHANGED hist_vars
    /\ UNCHANGED seed_vars
    /\ UNCHANGED path_vars

\* node generate_sql
GenerateSql ==
    /\ pc = "generate_sql"
    /\ \E llm \in GenerateOutcomes :
         LET gen == generator_generate_sql(ctx.question, llm)
             c == stage_generate_sql(ctx, gen)
         IN /\ ctx' = check_for_errors_context(c)
            /\ checked' = [context |-> c, label |-> check_for_errors(c)]
            /\ pc' = NextNode("generate_sql", c)
            /\ fail_log' = IF gen.raised
                           THEN Append(fail_log, "generate_sql")
                           ELSE fail_log
            /\ llm_calls' = Append(llm_calls, [stage |-> "generate_sql",
                                               outcome |-> llm])
    /\ trace' = Append(trace, "generate_sql")
    /\ UNCHANGED first
    /\ UNCHANGED <<exec_vars, store_vars, memory_files, result, runs>>
    /\ UNCHANGED mem_vars
    /\ UNCHANGED conc_vars
    /\ UNCHANGED seed_vars
    /\ UNCHANGED path_vars

\* node execute_sql
ExecuteSql ==
    /\ pc = "execute_sql"
    /\ \E out \in StoreOutcomes :
         LET call == execute_sql_call(ctx.sql_query, out)
             c == stage_execute_sql(ctx, call)
         IN /\ ctx' = check_for_errors_context(c)
            /\ checked' = [context |-> c, label |-> check_for_errors(c)]
            /\ pc' = NextNode("execute_sql", c)
            /\ store_log' = store_log \o call.handed
            /\ store_replies' = IF call.handed # <<>>
                                 THEN Append(store_replies, out)
                                 ELSE store_replies
            /\ sessions_acquired' = sessions_acquired + call.acquired
            /\ sessions_open' = sessions_open + call.acquired - call.closed
            /\ fail_log' = IF call.raised \/ ~call.ret.success
                           THEN Append(fail_log, "execute_sql")
                           ELSE fail_log
    /\ trace' = Append(trace, "execute_sql")
    /\ UNCHANGED <<llm_calls, first>>
    /\ UNCHANGED <<exec_vars, memory_files, result, runs>>
    /\ UNCHANGED mem_vars
    /\ UNCHANGED conc_vars
    /\ UNCHANGED seed_vars
    /\ UNCHANGED path_vars

\* node format_response
FormatResponse ==
    /\ pc = "format_response"
    /\ \E llm \in FormatOutcomes :
         /\ ctx' = stage_format_response(ctx, llm)
         /\ llm_calls' = llm_calls \o format_response_llm_calls(ctx, llm)
    /\ UNCHANGED <<checked, first>>
    /\ fail_log' = IF ~has_errors(ctx) /\ "success" \notin DOMAIN ctx.query_results
                   THEN Append(fail_log, "format_response")
                   ELSE fail_log
    /\ pc' = NextNode("format_response", ctx')
    /\ trace' = Append(trace, "format_response")
    /\ UNCHANGED <<exec_vars, store_vars, memory_files, result, runs>>
    /\ UNCHANGED mem_vars
    /\ UNCHANGED conc_vars
    /\ UNCHANGED seed_vars
    /\ UNCHANGED path_vars

\* node save_memory
SaveMemory ==
    /\ pc = "save_memory"
    /\ \E io \in IOOutcomes, wr \in WriteOutcomes :
         LET added == add_interaction(memory_files[ctx.user_id], io, wr, runs,
                                      ctx.question, ctx.sql_query,
                                      ctx.query_results, ctx.response)
         IN /\ ctx' = stage_save_memory(ctx, added)
            /\ memory_files' = [memory_files EXCEPT ![ctx.user_id] = added.file]
            /\ fail_log' = IF added.raised
                           THEN Append(fail_log, "save_memory")
                           ELSE fail_log
    /\ pc' = NextNode("save_memory", ctx')
    /\ trace' = Append(trace, "save_memory")
    /\ UNCHANGED <<exec_vars, store_vars, result, runs>>
    /\ UNCHANGED mem_vars
    /\ UNCHANGED conc_vars
    /\ UNCHANGED hist_vars
    /\ UNCHANGED seed_vars
    /\ UNCHANGED path_vars

\* the graph reached END: process_question returns its dictionary
Return ==
    /\ pc = END
    /\ result' = process_question_result(ctx.question, ctx)
    /\ pc' = "returned"
    /\ UNCHANGED <<exec_vars, store_vars, memory_files, ctx, trace, fail_log,
                   runs>>
    /\ UNCHANGED mem_vars
    /\ UNCHANGED conc_vars
    /\ UNCHANGED hist_vars
    /\ UNCHANGED seed_vars
    /\ UNCHANGED path_vars

Next ==
    \/ \E u \in Users, q \in Questions : StartRun(u, q)
    \/ LoadContext
    \/ GenerateSql
    \/ ExecuteSql
    \/ FormatResponse
    \/ SaveMemory
    \/ Return

\* runs of process_question, one after another
Spec == Init /\ [][Next]_vars

\* graph.invoke runs the nodes to completion: a node that is due runs
Step ==
    LoadContext \/ GenerateSql \/ ExecuteSql \/ FormatResponse
        \/ SaveMemory \/ Return

\* one call of process_question, from any initial memory file
FirstRun ==
    /\ runs = 0
    /\ \E u \in Users, q \in Questions : StartRun(u, q)

InvokeNext == FirstRun \/ Step

\* one run of the graph per behaviour, run to completion
FairSpec == Init /\ [][InvokeNext]_vars /\ WF_vars(Step)

ExecNext == CallExecuteSql

\* one direct call of SQLExecutor.execute_sql per behaviour
ExecSpec == ExecInit /\ [][ExecNext]_vars

\* the clock of the direct callers of the MemoryManager
MemNow == Len(write_order) + 1

\* add_interaction of caller w, up to its call of save_memory
AddInteractionLoad(w) ==
    /\ writers[w].pc = "start"
    /\ \E io \in IOOutcomes :
         LET b == add_interaction_build(memory_files[writers[w].user], io,
                                        MemNow, CallerQuestion[w],
                                        CallerQuery, CallerResults,
                                        CallerResponse)
         IN writers' = [writers EXCEPT ![w] =
                [@ EXCEPT !.pc = IF b.raised THEN "raised" ELSE "loaded",
                          !.memory = b.memory]]
    /\ UNCHANGED <<exec_vars, store_vars, flow_vars, write_order, mem_read>>
    /\ UNCHANGED conc_vars
    /\ UNCHANGED hist_vars
    /\ UNCHANGED seed_vars
    /\ UNCHANGED path_vars

\* add_interaction of caller w: its call of save_memory, then its return
AddInteractionSave(w) ==
    /\ writers[w].pc = "loaded"
    /\ \E wr \in WriteOutcomes :
         /\ memory_files' = [memory_files EXCEPT ![writers[w].user] =
                save_memory_file(@, writers[w].memory, wr)]
         /\ writers' = [writers EXCEPT ![w] =
                [@ EXCEPT !.pc = "done", !.wrote = wr]]
    /\ write_order' = Append(write_order, w)
    /\ UNCHANGED <<exec_vars, store_vars, run_vars, mem_read>>
    /\ UNCHANGED conc_vars
    /\ UNCHANGED hist_vars
    /\ UNCHANGED seed_vars
    /\ UNCHANGED path_vars

\* the one direct call of load_memory(user_id) of the behaviour
CallLoadMemory ==
    /\ mem_read.op = "none"
    /\ \E u \in Users, io \in IOOutcomes :
         LET m == load_memory(memory_files[u], io, MemNow)
         IN mem_read' = [op |-> "load_memory", user |-> u, limit |-> 0,
                         file |-> memory_files[u], io |-> io,
                         raised |-> m.raised, value |-> m.doc]
    /\ UNCHANGED <<exec_vars, store_vars, flow_vars, writers, write_order>>
    /\ UNCHANGED conc_vars
    /\ UNCHANGED hist_vars
    /\ UNCHANGED seed_vars
    /\ UNCHANGED path_vars

\* the one direct call of get_recent_interactions(user_id, limit) of the
\* behaviour
CallGetRecentInteractions ==
    /\ mem_read.op = "none"
    /\ \E u \in Users, io \in IOOutcomes, limit \in 0..MaxLimit :
         LET r == get_recent_interactions(memory_files[u], io, MemNow, limit)
         IN mem_read' = [op |-> "get_recent_interactions", user |-> u,
                         limit |-> limit, file |-> memory_files[u],
                         io |-> io, raised |-> r.raised, value |-> r.value]
    /\ UNCHANGED <<exec_vars, store_vars, flow_vars, writers, write_order>>
    /\ UNCHANGED conc_vars
    /\ UNCHANGED hist_vars
    /\ UNCHANGED seed_vars
    /\ UNCHANGED path_vars

MemNext ==
    \/ \E w \in Callers : AddInteractionLoad(w)
    \/ \E w \in Callers : AddInteractionSave(w)
    \/ CallLoadMemory
    \/ CallGetRecentInteractions

\* direct calls of the MemoryManager, the writers running concurrently
MemSpec == MemInit /\ [][MemNext]_vars

\* the time of the concurrent calls
ConcNow == 1

\* what the collaborators answer to the concurrent calls: for each, one
\* answer that lets the stage succeed and one that makes it fail
ConcGenerateOutcomes ==
    { [kind |-> "text", text |-> <<"s","e","l","e","c","t"," ","1">>],
      [kind |-> "raise", exc |-> <<"llm unavailable">>] }
ConcStoreOutcomes ==
    { [kind |-> "rows", rows |-> SubSeq(AllRows, 1, 1), keys |-> Keys],
      [kind |-> "SQLAlchemyError", msg |-> <<"connection refused">>] }
ConcFormatOutcomes == { [kind |-> "text"] }
ConcWriteOutcomes == {"ok", "open_error"}

\* two calls are about to be made; the first is for user u1
ConcInit ==
    /\ ExecIdle
    /\ StoreInit
    /\ memory_files \in [Users -> {AbsentFile, SeededFile}]
    /\ ctx = NewContext("anonymous", <<>>)
    /\ pc = "idle"
    /\ result = EmptyDict
    /\ trace = <<>>
    /\ fail_log = <<>>
    /\ runs = 0
    /\ MemIdle
    /\ ConcIdle
    /\ HistIdle
    /\ SeedIdle
    /\ PathIdle

\* call r of process_question(user_id, RunQuestion[r]) starts: it builds its
\* Context and enters the graph
ConcStartRun(r, user_id) ==
    /\ conc[r].pc = "idle"
    /\ r = "r1" => user_id = "u1"
    /\ conc' = [o \in RunIds |->
          IF o = r
          THEN [conc[r] EXCEPT
                  !.pc = EntryPoint,
                  !.ctx = Fields(NewContext(user_id, RunQuestion[r])),
                  !.overlapped = \E x \in RunIds \ {r} : InProgress(x)]
          ELSE [conc[o] EXCEPT !.overlapped = @ \/ InProgress(o)]]
    /\ UNCHANGED <<exec_vars, store_vars, flow_vars, mem_vars, heap>>
    /\ UNCHANGED hist_vars
    /\ UNCHANGED seed_vars
    /\ UNCHANGED path_vars

\* node load_context of call r
ConcLoadContext(r) ==
    /\ conc[r].pc = "load_context"
    /\ \E io \in IOOutcomes :
         LET c == ContextOf(r)
             recent == get_recent_interactions(memory_files[c.user_id], io,
                                               ConcNow, DefaultLimit)
             c2 == stage_load_context(c, recent)
         IN /\ conc' = [conc EXCEPT ![r] = [@ EXCEPT
                  !.pc = NextNode("load_context", c2),
                  !.ctx = Fields(c2),
                  !.fail_log = IF recent.raised
                               THEN Append(@, "load_context") ELSE @]]
            /\ heap' = Put(r, c2)
    /\ UNCHANGED <<exec_vars, store_vars, flow_vars, mem_vars>>
    /\ UNCHANGED hist_vars
    /\ UNCHANGED seed_vars
    /\ UNCHANGED path_vars

\* node generate_sql of call r
ConcGenerateSql(r) ==
    /\ conc[r].pc = "generate_sql"
    /\ \E llm \in ConcGenerateOutcomes :
         LET c == ContextOf(r)
             gen == generator_generate_sql(c.question, llm)
             c2 == stage_generate_sql(c, gen)
         IN /\ conc' = [conc EXCEPT ![r] = [@ EXCEPT
                  !.pc = NextNode("generate_sql", c2),
                  !.ctx = Fields(c2),
                  !.fail_log = IF gen.raised
                               THEN Append(@, "generate_sql") ELSE @]]
            /\ heap' = Put(r, c2)
    /\ UNCHANGED <<exec_vars, store_vars, flow_vars, mem_vars>>
    /\ UNCHANGED hist_vars
    /\ UNCHANGED seed_vars
    /\ UNCHANGED path_vars

\* node execute_sql of call r
ConcExecuteSql(r) ==
    /\ conc[r].pc = "execute_sql"
    /\ \E out \in ConcStoreOutcomes :
         LET c == ContextOf(r)
             call == execute_sql_call(c.sql_query, out)
             c2 == stage_execute_sql(c, call)
         IN /\ conc' = [conc EXCEPT ![r] = [@ EXCEPT
                  !.pc = NextNode("execute_sql", c2),
                  !.ctx = Fields(c2),
                  !.fail_log = IF call.raised \/ ~call.ret.success
                               THEN Append(@, "execute_sql") ELSE @]]
            /\ heap' = Put(r, c2)
            /\ store_log' = store_log \o call.handed
            /\ store_replies' = IF call.handed # <<>>
                                 THEN Append(store_replies, out)
                                 ELSE store_replies
            /\ sessions_acquired' = sessions_acquired + call.acquired
            /\ sessions_open' = sessions_open + call.acquired - call.closed
    /\ UNCHANGED <<exec_vars, flow_vars, mem_vars>>
    /\ UNCHANGED hist_vars
    /\ UNCHANGED seed_vars
    /\ UNCHANGED path_vars

\* node format_response of call r
ConcFormatResponse(r) ==
    /\ conc[r].pc = "format_response"
    /\ \E llm \in ConcFormatOutcomes :
         LET c == ContextOf(r)
             c2 == stage_format_response(c, llm)
         IN /\ conc' = [conc EXCEPT ![r] = [@ EXCEPT
                  !.pc = NextNode("format_response", c2),
                  !.ctx = Fields(c2),
                  !.fail_log =
                     IF ~has_errors(c) /\ "success" \notin DOMAIN c.query_results
                     THEN Append(@, "format_response") ELSE @]]
            /\ heap' = Put(r, c2)
    /\ UNCHANGED <<exec_vars, store_vars, flow_vars, mem_vars>>
    /\ UNCHANGED hist_vars
    /\ UNCHANGED seed_vars
    /\ UNCHANGED path_vars

\* node save_memory of call r
ConcSaveMemory(r) ==
    /\ conc[r].pc = "save_memory"
    /\ \E io \in IOOutcomes, wr \in ConcWriteOutcomes :
         LET c == ContextOf(r)
             added == add_interaction(memory_files[c.user_id], io, wr,
                                      ConcNow, c.question, c.sql_query,
                                      c.query_results, c.response)
             c2 == stage_save_memory(c, added)
         IN /\ conc' = [conc EXCEPT ![r] = [@ EXCEPT
                  !.pc = NextNode("save_memory", c2),
                  !.ctx = Fields(c2),
                  !.fail_log = IF added.raised
                               THEN Append(@, "save_memory") ELSE @]]
            /\ heap' = Put(r, c2)
            /\ memory_files' = [memory_files EXCEPT ![c.user_id] = added.file]
    /\ UNCHANGED <<exec_vars, store_vars, run_vars, mem_vars>>
    /\ UNCHANGED hist_vars
    /\ UNCHANGED seed_vars
    /\ UNCHANGED path_vars

\* the graph of call r reached END: process_question returns its dictionary
ConcReturn(r) ==
    /\ conc[r].pc = END
    /\ conc' = [conc EXCEPT ![r] = [@ EXCEPT
          !.pc = "returned",
          !.result = process_question_result(RunQuestion[r], ContextOf(r))]]
    /\ UNCHANGED <<exec_vars, store_vars, flow_vars, mem_vars, heap>>
    /\ UNCHANGED hist_vars
    /\ UNCHANGED seed_vars
    /\ UNCHANGED path_vars

ConcNext ==
    \/ \E r \in RunIds, u \in Users : ConcStartRun(r, u)
    \/ \E r \in RunIds : ConcLoadContext(r)
    \/ \E r \in RunIds : ConcGenerateSql(r)
    \/ \E r \in RunIds : ConcExecuteSql(r)
    \/ \E r \in RunIds : ConcFormatResponse(r)
    \/ \E r \in RunIds : ConcSaveMemory(r)
    \/ \E r \in RunIds : ConcReturn(r)

\* two calls of process_question running concurrently
ConcSpec == ConcInit /\ [][ConcNext]_vars

\* process_question is called a second time with the arguments of the
\* first call, after the first call has returned
SecondRun ==
    /\ pc = "returned"
    /\ runs = 1
    /\ first' = [user_id |-> ctx.user_id, question |-> ctx.question,
                 result |-> result, llm_calls |-> llm_calls,
                 fail_log |-> fail_log, replies |-> store_replies]
    /\ ctx' = NewContext(ctx.user_id, ctx.question)
    /\ pc' = EntryPoint
    /\ result' = EmptyDict
    /\ trace' = <<>>
    /\ fail_log' = <<>>
    /\ runs' = runs + 1
    /\ llm_calls' = <<>>
    /\ checked' = NoCheck
    /\ UNCHANGED <<exec_vars, store_vars, memory_files>>
    /\ UNCHANGED mem_vars
    /\ UNCHANGED conc_vars
    /\ UNCHANGED seed_vars
    /\ UNCHANGED path_vars

RepeatNext == FirstRun \/ SecondRun \/ Step

\* process_question called twice with the same user and question
RepeatSpec == Init /\ [][RepeatNext]_vars

not_seed_vars ==
    <<exec_vars, store_vars, flow_vars, mem_vars, conc_vars, hist_vars,
      path_vars>>

\* seed_database returns or raises: the message printed or logged is kept
seed_return(message) ==
    [seed EXCEPT !.pc = "idle", !.step = 0, !.log = Append(@, message)]

\* startup_event calls seed_database()
SeedCall ==
    /\ seed.pc = "idle"
    /\ seed.calls < MaxSeedCalls
    /\ seed' = [seed EXCEPT !.pc = "create_all", !.calls = @ + 1,
                            !.at_call = db]
    /\ UNCHANGED db
    /\ UNCHANGED not_seed_vars

\* Base.metadata.create_all(engine), outside the try block: its exception
\* reaches startup_event, which logs it
SeedCreateAll ==
    /\ seed.pc = "create_all"
    /\ \E out \in SeedOutcomes :
         seed' = IF out = "ok" THEN [seed EXCEPT !.pc = "probe"]
                 ELSE seed_return("Error initializing database")
    /\ UNCHANGED db
    /\ UNCHANGED not_seed_vars

\* session.query(Cliente).count() > 0: the call returns early on a store
\* that holds clients
SeedProbe ==
    /\ seed.pc = "probe"
    /\ \E out \in SeedOutcomes :
         seed' = IF out = "error" THEN seed_return("Error seeding database")
                 ELSE IF Cardinality(db["clientes"]) > 0
                 THEN seed_return("Database already seeded. Skipping...")
                 ELSE [seed EXCEPT !.pc = "insert", !.step = 1]
    /\ UNCHANGED db
    /\ UNCHANGED not_seed_vars

\* the rows of the next table are added and committed; an exception rolls
\* the uncommitted rows back and ends the call
SeedInsert ==
    /\ seed.pc = "insert"
    /\ LET t == SeedOrder[seed.step]
       IN \E out \in SeedOutcomes,
             draw \in IF t = "transacoes" THEN RandomDraws ELSE {"none"} :
            LET keys == fixture(t, draw)
                failed == \/ out = "error"
                          \/ unique_violation(t, db[t], keys)
                          \/ notebook_missing(t, db)
            IN IF failed
               THEN /\ seed' = seed_return("Error seeding database")
                    /\ UNCHANGED db
               ELSE /\ db' = [db EXCEPT ![t] = @ \cup new_rows(@, keys)]
                    /\ seed' = IF seed.step < Len(SeedOrder)
                               THEN [seed EXCEPT !.step = @ + 1]
                               ELSE seed_return("Database seeded successfully!")
    /\ UNCHANGED not_seed_vars

SeedNext == SeedCall \/ SeedCreateAll \/ SeedProbe \/ SeedInsert

\* the process is started several times against the same store
SeedSpec == Init /\ [][SeedNext]_vars

\* open(memory_path, "w"): the file is truncated as soon as it is opened; an
\* empty file is one json.load cannot decode
open_for_write(file, wr) ==
    IF wr = "open_error" THEN file ELSE CorruptFile

\* each caller is about to call add_interaction; before is the number of
\* records stored for its user at that time
TruncInit ==
    /\ ExecIdle
    /\ StoreInit
    /\ memory_files \in [Users -> MemFiles]
    /\ ctx = NewContext("anonymous", <<>>)
    /\ pc = "idle"
    /\ result = EmptyDict
    /\ trace = <<>>
    /\ fail_log = <<>>
    /\ runs = 0
    /\ writers \in [Callers -> { [pc |-> "start", user |-> u,
                                  memory |-> create_empty_memory(0),
                                  wrote |-> "none",
                                  before |->
                                    IF memory_files[u].state = "ok"
                                    THEN Len(memory_files[u].doc.conversations)
                                    ELSE 0] : u \in Users }]
    /\ write_order = <<>>
    /\ mem_read = NoRead
    /\ ConcIdle
    /\ HistIdle
    /\ SeedIdle
    /\ PathIdle

\* save_memory of caller w opens the file for writing
AddInteractionOpen(w) ==
    /\ writers[w].pc = "loaded"
    /\ \E wr \in {"ok", "open_error"} :
         /\ memory_files' = [memory_files EXCEPT ![writers[w].user] =
                open_for_write(@, wr)]
         /\ writers' = [writers EXCEPT ![w] =
                IF wr = "open_error"
                THEN [@ EXCEPT !.pc = "done", !.wrote = wr]
                ELSE [@ EXCEPT !.pc = "opened"]]
    /\ UNCHANGED <<exec_vars, store_vars, run_vars, write_order, mem_read>>
    /\ UNCHANGED conc_vars
    /\ UNCHANGED hist_vars
    /\ UNCHANGED seed_vars
    /\ UNCHANGED path_vars

\* json.dump of caller w writes its document, or fails and leaves the file
\* undecodable; then add_interaction returns
AddInteractionDump(w) ==
    /\ writers[w].pc = "opened"
    /\ \E wr \in {"ok", "dump_error"} :
         /\ memory_files' = [memory_files EXCEPT ![writers[w].user] =
                save_memory_file(@, writers[w].memory, wr)]
         /\ writers' = [writers EXCEPT ![w] =
                [@ EXCEPT !.pc = "done", !.wrote = wr]]
    /\ write_order' = Append(write_order, w)
    /\ UNCHANGED <<exec_vars, store_vars, run_vars, mem_read>>
    /\ UNCHANGED conc_vars
    /\ UNCHANGED hist_vars
    /\ UNCHANGED seed_vars
    /\ UNCHANGED path_vars

TruncNext ==
    \/ \E w \in Callers : AddInteractionLoad(w)
    \/ \E w \in Callers : AddInteractionOpen(w)
    \/ \E w \in Callers : AddInteractionDump(w)

\* concurrent add_interaction calls, the write split at its system calls
TruncSpec == TruncInit /\ [][TruncNext]_vars

\* add_interaction(user_id, ...) is called and returns
PathAddInteraction(user_id) ==
    /\ Len(path_calls) < MaxPathCalls
    /\ \E wr \in WriteOutcomes :
         LET f == Resolve(get_user_memory_path(user_id))
             added == add_interaction(fs[f], "ok", wr, Len(path_calls) + 1,
                                      <<"Q", ToString(Len(path_calls) + 1)>>,
                                      CallerQuery, CallerResults,
                                      CallerResponse)
         IN fs' = [fs EXCEPT ![f] = added.file]
    /\ path_calls' = Append(path_calls, user_id)
    /\ UNCHANGED <<exec_vars, store_vars, flow_vars, mem_vars, conc_vars,
                   hist_vars, seed_vars>>

PathNext == \E u \in PathUserIds : PathAddInteraction(u)

\* add_interaction called for user ids taken from requests
PathSpec == Init /\ [][PathNext]_vars

(***************************************************************************)
(* Properties                                                              *)
(***************************************************************************)
Range(s) == { s[i] : i \in 1..Len(s) }
Count(s, x) == Cardinality({ i \in 1..Len(s) : s[i] = x })

\* letters, digits and the underscore: the characters of an SQL word
WordChars ==
    DOMAIN UpperToLower \cup { UpperToLower[c] : c \in DOMAIN UpperToLower }
    \cup {"0", "1", "2", "3", "4", "5", "6", "7", "8", "9", "_"}

\* kw occurs in q, in any letter case, as a whole word: not preceded and not
\* followed by a word character
WordAt(q, kw, i) ==
    /\ i + Len(kw) - 1 <= Len(q)
    /\ \A j \in 1..Len(kw) : LowerChar(q[i + j - 1]) = kw[j]
    /\ (i = 1 \/ q[i - 1] \notin WordChars)
    /\ (i + Len(kw) > Len(q) \/ q[i + Len(kw)] \notin WordChars)

ContainsWord(q, kw) == \E i \in 1..Len(q) : WordAt(q, kw, i)

\* the fourteen mutating keywords
MutatingKeywords ==
    { kw_drop, kw_delete, kw_truncate, kw_update, kw_insert, kw_alter,
      kw_create, kw_grant, kw_revoke, kw_commit, kw_rollback, kw_begin,
      kw_end, kw_vacuum }

\* q contains one of the mutating keywords as a whole word
ContainsMutatingKeyword(q) ==
    \E kw \in MutatingKeywords : ContainsWord(q, kw)

\* the first six characters of q after its leading whitespace spell
\* "select" in some letter case
SelectPrefix(q) ==
    \E i \in 1..Len(q) :
        /\ \A j \in 1..(i - 1) : q[j] \in Whitespace
        /\ q[i] \notin Whitespace
        /\ i + 5 <= Len(q)
        /\ \A j \in 1..6 : LowerChar(q[i + j - 1]) = kw_select[j]

\* the fixed-template apology citing message msg
Apology(msg) == <<"I'm sorry, but I encountered an error: ">> \o msg

\* q contains a statement that begins with a mutating keyword: the keyword
\* stands as a whole word at the start of q or after a ';', whitespace aside
ContainsMutatingStatement(q) ==
    \E kw \in MutatingKeywords, i \in 1..Len(q) :
        /\ WordAt(q, kw, i)
        /\ LET before == RStrip(SubSeq(q, 1, i - 1)) IN
           before = <<>> \/ before[Len(before)] = ";"

\* C1: no text handed to session.execute contains a mutating statement, in
\* any letter case and whatever separates it from the text around it.
C1_OnlyReadOnlyReachesStore ==
    \A i \in 1..Len(store_log) : ~ContainsMutatingStatement(store_log[i])

\* C2: a query whose lower-cased, trimmed text does not start with "select"
\* is rejected by validate_sql, with or without a denylisted keyword in it.
C2_NonSelectRejected ==
    (exec_pc = "returned" /\ ~SelectPrefix(sql_query)) => is_safe = FALSE

C2_Witness ==
    /\ exec_pc = "returned"
    /\ ~SelectPrefix(sql_query)
    /\ ~ContainsMutatingKeyword(sql_query)
    /\ sql_query # <<>>
    /\ is_safe = FALSE

\* C3: a query containing a denylisted keyword as a whole word, in any
\* letter case and next to whitespace or punctuation, is rejected by
\* validate_sql even when it starts with "select".
C3_KeywordRejected ==
    (exec_pc = "returned" /\ ContainsMutatingKeyword(sql_query))
        => is_safe = FALSE

\* C4: when validate_sql rejects the query, execute_sql returns the
\* validation failure result, obtains no session and hands the store nothing.
C4_RejectedQueryTouchesNothing ==
    (exec_pc = "returned" /\ is_safe = FALSE) =>
        /\ exec_result =
              [success |-> FALSE, error |-> <<"SQL query failed validation">>,
               data |-> None, columns |-> None, row_count |-> 0]
        /\ sessions_acquired = 0
        /\ sessions_open = 0
        /\ store_log = <<>>

C4_Witness ==
    /\ exec_pc = "returned"
    /\ is_safe = FALSE
    /\ SelectPrefix(sql_query)

\* C5: in a run whose generate_sql stage is the one that failed, execute_sql
\* never runs, query_results keeps its empty default, and the returned
\* errors list is exactly the generate_sql entry.
C5_GenerateFailureShortCircuits ==
    (/\ pc = "returned"
     /\ "generate_sql" \in Range(fail_log)
     /\ "load_context" \notin Range(fail_log)) =>
        /\ "execute_sql" \notin Range(trace)
        /\ DOMAIN ctx.query_results = {}
        /\ Len(result.errors) = 1
        /\ result.errors[1].agent = "generate_sql"

\* the position of each stage in the pipeline
StageOrder ==
    [st \in Stages |->
        CASE st = "load_context" -> 1
          [] st = "generate_sql" -> 2
          [] st = "execute_sql" -> 3
          [] st = "format_response" -> 4
          [] st = "save_memory" -> 5]

C6_Safety ==
    /\ \A st \in Stages : Count(trace, st) <= 1
    /\ \A i \in 1..(Len(trace) - 1) :
          StageOrder[trace[i]] < StageOrder[trace[i + 1]]
    /\ pc \in {END, "returned"} =>
          /\ Count(trace, "format_response") = 1
          /\ Count(trace, "save_memory") = 1
          /\ trace[Len(trace)] = "save_memory"

C7_FailuresBecomeErrorEntries ==
    /\ pc \in {"idle", "returned", END} \cup Stages
    /\ Len(ctx.errors) = Len(fail_log)
    /\ \A i \in 1..Len(fail_log) : ctx.errors[i].agent = fail_log[i]
    /\ pc = "returned" => DOMAIN result =
          {"question", "sql_query", "response", "success", "errors"}

C7_Witness ==
    /\ pc = "returned"
    /\ fail_log = <<"load_context", "generate_sql", "save_memory">>

\* C8: the returned success is true exactly when no error was appended
\* during the run, and the returned errors are all the errors appended
\* during the run, in order.
C8_SuccessIffNoErrors ==
    pc = "returned" =>
        /\ result.success = (fail_log = <<>>)
        /\ result.success = (ctx.errors = <<>>)
        /\ result.errors = ctx.errors
        /\ Len(result.errors) = Len(fail_log)
        /\ \A i \in 1..Len(fail_log) : result.errors[i].agent = fail_log[i]

C8_Witness ==
    /\ pc = "returned"
    /\ result.success = FALSE
    /\ ctx.is_query_validated
    /\ Len(result.errors) = 1

\* C9 as stated, in the case it names: the only entry of the returned
\* errors list was appended by save_memory after formatting, and the
\* returned response is the apology citing the message of that entry.
C9_ApologyCitesLastError ==
    (/\ pc = "returned"
     /\ Len(result.errors) = 1
     /\ result.errors[1].agent = "save_memory") =>
        result.response = Apology(result.errors[Len(result.errors)].message)

\* the entries appended before the save_memory stage
BeforeSave(errors) == SelectSeq(errors, LAMBDA e : e.agent # "save_memory")

\* C9 amended: whenever the returned errors list holds an entry appended
\* before format_response ran (an entry not tagged save_memory), the returned
\* response is the apology citing the message of the last such entry; an
\* entry appended by save_memory afterwards leaves the response as it was.
C9_ApologyCitesLastErrorBeforeFormatting ==
    (pc = "returned" /\ BeforeSave(result.errors) # <<>>) =>
        LET pre == BeforeSave(result.errors) IN
        result.response = Apology(pre[Len(pre)].message)

C9_Witness ==
    /\ pc = "returned"
    /\ Len(result.errors) = 3
    /\ result.errors[2].agent = "generate_sql"
    /\ result.errors[3].agent = "save_memory"
    /\ result.response = Apology(result.errors[2].message)

\* the invariant of a result dictionary
ResultInvariant(r) ==
    /\ r.success = FALSE =>
          (r.data = None /\ r.columns = None /\ r.row_count = 0)
    /\ r.success = TRUE => r.row_count = Len(r.data)

\* C10: once the execute_sql stage has run, query_results is a result of
\* execute_sql and satisfies: failure implies no data, no columns and a row
\* count of 0; success implies the row count is the number of rows in data.
C10_ResultShape ==
    "execute_sql" \in Range(trace) =>
        /\ "success" \in DOMAIN ctx.query_results
        /\ ResultInvariant(ctx.query_results)

C10_Witness ==
    /\ "execute_sql" \in Range(trace)
    /\ "success" \in DOMAIN ctx.query_results
    /\ ctx.query_results.success
    /\ ctx.query_results.row_count = 2
    /\ Len(ctx.query_results.data) = 2

\* the store answered the last statement with zero rows
StoreReturnedNoRows ==
    /\ store_replies # <<>>
    /\ store_replies[Len(store_replies)].kind = "rows"
    /\ store_replies[Len(store_replies)].rows = <<>>

\* C11: when a query passed validation and the store returned zero rows,
\* execute_sql returns success = true, row_count = 0 and data = the empty
\* list, with no error entry: an empty result is not a failure.
C11_EmptyResultIsSuccess ==
    (exec_pc = "returned" /\ is_safe /\ StoreReturnedNoRows) =>
        /\ exec_result.success = TRUE
        /\ exec_result.row_count = 0
        /\ exec_result.data = <<>>
        /\ "error" \notin DOMAIN exec_result

C11_Witness ==
    /\ exec_pc = "returned"
    /\ is_safe
    /\ StoreReturnedNoRows
    /\ exec_result.success = TRUE
    /\ exec_result.data = <<>>

\* C12: once execute_sql has returned or raised, every session it obtained
\* has been closed, whatever the store answered.
C12_SessionAlwaysReleased ==
    exec_pc \in {"returned", "raised"} => sessions_open = 0

C12_Witness ==
    /\ exec_pc = "returned"
    /\ sessions_acquired = 1
    /\ sessions_open = 0
    /\ store_replies # <<>>
    /\ store_replies[1].kind \in {"SQLAlchemyError", "Exception"}

\* get_recent_interactions(user_id, 1) called after the run, the file being
\* readable
RecentOne == get_recent_interactions(memory_files[ctx.user_id], "ok", runs, 1)

\* C13: after a run that returned success = true, get_recent_interactions
\* (user_id, 1) returns exactly one record, whose question is the question
\* of the run and whose results_summary.success is the success of the run.
C13_MemoryRoundTrip ==
    (pc = "returned" /\ result.success) =>
        /\ ~RecentOne.raised
        /\ Len(RecentOne.value) = 1
        /\ RecentOne.value[1].question = result.question
        /\ RecentOne.value[1].results_summary.success = result.success

\* the caller whose save_memory ran last
LastWriter == write_order[Len(write_order)]

\* the records of the direct callers held by a list of conversations
NewRecords(convs) ==
    { i \in 1..Len(convs) :
        convs[i].question \in { CallerQuestion[w] : w \in Callers } }

\* C14: a successful write replaces the whole document by the document its
\* caller loaded plus that caller's one record, whatever was written in
\* between (last write wins).
C14_LastWriteWins ==
    (write_order # <<>> /\ writers[LastWriter].wrote = "ok") =>
        memory_files[writers[LastWriter].user] =
            [state |-> "ok", doc |-> writers[LastWriter].memory]

\* C14, the lost update: two add_interaction calls for the same user both
\* returned after a successful write, and the file holds only one of the
\* two new records.
C14_Witness ==
    /\ \A w \in Callers : writers[w].pc = "done" /\ writers[w].wrote = "ok"
    /\ writers["w1"].user = writers["w2"].user
    /\ memory_files[writers["w1"].user].state = "ok"
    /\ Cardinality(NewRecords(
          memory_files[writers["w1"].user].doc.conversations)) = 1

\* the conversations a history file stores
Stored(file) == IF file.state = "ok" THEN file.doc.conversations ELSE <<>>

\* caller w returns from add_interaction in this step, and nobody wrote the
\* file of its user between its load and its write
SerialSave(w) ==
    /\ writers[w].pc = "loaded"
    /\ writers'[w].pc = "done"
    /\ Stored(memory_files[writers[w].user]) =
          SubSeq(writers[w].memory.conversations, 1,
                 Len(writers[w].memory.conversations) - 1)

\* C15: an add_interaction call that returns normally and overlaps no other
\* writer leaves the stored conversations equal to what was stored before
\* followed by its one new record.
C15_AppendOnly ==
    [][\A w \in Callers :
          SerialSave(w) =>
             Stored(memory_files'[writers[w].user]) =
                Append(Stored(memory_files[writers[w].user]),
                       writers[w].memory.conversations[
                           Len(writers[w].memory.conversations)])]_vars

\* the file of the last direct read does not exist, cannot be opened, or
\* does not hold JSON
NoUsableDocument ==
    \/ mem_read.file.state = "absent"
    \/ mem_read.file.state = "corrupt"
    \/ mem_read.io = "OSError"

\* C16: load_memory returns a fresh empty document, and does not raise,
\* whenever the user's file is missing, unreadable or corrupt.
C16_LoadFallsBackToEmpty ==
    (mem_read.op = "load_memory" /\ NoUsableDocument) =>
        /\ ~mem_read.raised
        /\ mem_read.value.conversations = <<>>
        /\ mem_read.value.preferences = EmptyDict

\* C16, amended: load_memory returns a fresh empty document, and does not
\* raise, when the user's file is missing or is opened but does not hold
\* JSON; when the file exists and cannot be opened, the error of open()
\* leaves load_memory.
C16_LoadFallsBackWhenMissingOrNotJson ==
    mem_read.op = "load_memory" =>
        /\ (\/ mem_read.file.state = "absent"
            \/ mem_read.file.state = "corrupt" /\ mem_read.io = "ok") =>
              /\ ~mem_read.raised
              /\ mem_read.value.conversations = <<>>
              /\ mem_read.value.preferences = EmptyDict
        /\ (mem_read.file.state # "absent" /\ mem_read.io = "OSError") =>
              mem_read.raised

C16_Witness ==
    /\ mem_read.op = "load_memory"
    /\ mem_read.file.state = "corrupt"
    /\ mem_read.io = "ok"
    /\ ~mem_read.raised
    /\ mem_read.value.conversations = <<>>

\* the smaller of two numbers
Min(a, b) == IF a <= b THEN a ELSE b

\* C17: get_recent_interactions(user_id, limit) returns the last
\* min(limit, n) of the n stored records, in their stored order, and never
\* more than limit records.
C17_RecentReturnsLastLimit ==
    (mem_read.op = "get_recent_interactions" /\ ~mem_read.raised) =>
        LET convs == Stored(mem_read.file)
            k == Min(mem_read.limit, Len(convs))
        IN /\ mem_read.value = SubSeq(convs, Len(convs) - k + 1, Len(convs))
           /\ Len(mem_read.value) <= mem_read.limit

\* the stages that have started and returned in the current run
Executed == Range(trace)

C20_LoadContextFailureIsNotFatal ==
    (fail_log # <<>> /\ fail_log[1] = "load_context") =>
        /\ ctx.errors[1].agent = "load_context"
        /\ ctx.conversation_history = <<>>
        /\ Len(trace) = 1 => pc = "generate_sql"
        /\ Len(trace) >= 2 => trace[2] = "generate_sql"

C20_Witness ==
    /\ pc = "returned"
    /\ fail_log # <<>>
    /\ fail_log[1] = "load_context"
    /\ "generate_sql" \in Executed
    /\ result.errors[1].agent = "load_context"

\* the stages named by a list of error entries
Agents(errors) == [i \in 1..Len(errors) |-> errors[i].agent]

\* what call r sees and returns is its own: its user and question, the
\* errors of its own failed stages, and a result built from them
OwnContext(r) ==
    conc[r].pc # "idle" =>
        /\ ContextOf(r).question = RunQuestion[r]
        /\ Agents(ContextOf(r).errors) = conc[r].fail_log
        /\ DOMAIN ContextOf(r).metadata \subseteq
              {"context_loaded", "history_length"}
        /\ conc[r].pc = "returned" =>
              /\ conc[r].result.question = RunQuestion[r]
              /\ conc[r].result.sql_query = ContextOf(r).sql_query
              /\ conc[r].result.response = ContextOf(r).response
              /\ Agents(conc[r].result.errors) = conc[r].fail_log
              /\ conc[r].result.success = (conc[r].fail_log = <<>>)

\* C18: with two calls of process_question running concurrently, each call
\* sees only its own Context: the errors it holds are those of its own
\* stages, its result is built from them, and a step of one call changes
\* nothing of the Context of the other.
C18_RunsIsolated ==
    /\ [](\A r \in RunIds : OwnContext(r))
    /\ [][\A r \in RunIds :
            conc'[r].pc = conc[r].pc => ContextOf(r)' = ContextOf(r)]_vars

C18_Witness ==
    /\ \A r \in RunIds : conc[r].pc = "returned" /\ conc[r].overlapped
    /\ ContextOf("r1").user_id = ContextOf("r2").user_id
    /\ conc["r1"].result.success = FALSE
    /\ conc["r1"].fail_log = <<"execute_sql">>
    /\ conc["r2"].result.success = TRUE
    /\ conc["r2"].result.errors = <<>>

\* the save_memory stage runs in this step
SaveMemoryStep == pc = "save_memory" /\ pc' # "save_memory"

\* after the step the user's history file ends with the record of this run
Persisted ==
    /\ memory_files'[ctx.user_id] # memory_files[ctx.user_id]
    /\ Stored(memory_files'[ctx.user_id]) # <<>>
    /\ LET convs == Stored(memory_files'[ctx.user_id])
       IN /\ convs[Len(convs)].question = ctx.question
          /\ convs[Len(convs)].response = ctx.response

\* C21: a save_memory stage that does not persist the record of the run
\* appends one error tagged "save_memory", and the stage never changes the
\* response.
C21_PersistFailureIsRecorded ==
    [][SaveMemoryStep =>
          /\ ctx'.response = ctx.response
          /\ ~Persisted =>
                /\ Len(ctx'.errors) = Len(ctx.errors) + 1
                /\ ctx'.errors[Len(ctx'.errors)].agent = "save_memory"]_vars

IsPrefixOf(s, t) == Len(s) <= Len(t) /\ SubSeq(t, 1, Len(s)) = s

\* C25: within one run the errors list only grows: every step of the run
\* keeps the entries it finds, in their order, and can only append after
\* them; a non-empty list never becomes empty.
C25_ErrorsOnlyGrow ==
    [][runs' = runs =>
          /\ IsPrefixOf(ctx.errors, ctx'.errors)
          /\ ctx.errors # <<>> => ctx'.errors # <<>>]_vars

\* three stages of one run have failed, each leaving its entry
C25_Witness ==
    /\ pc = "returned"
    /\ Agents(ctx.errors) = <<"load_context", "generate_sql", "save_memory">>

\* C26: the stage that runs right after execute_sql is format_response,
\* whether or not execute_sql appended an error.
C26_FormatFollowsExecute ==
    \A i \in 1..Len(trace) :
        trace[i] = "execute_sql" =>
            IF i < Len(trace) THEN trace[i + 1] = "format_response"
            ELSE pc = "format_response"

\* execute_sql failed and format_response ran right after it
C26_Witness ==
    /\ Len(trace) >= 4
    /\ trace[3] = "execute_sql" /\ trace[4] = "format_response"
    /\ "execute_sql" \in Range(Agents(ctx.errors))

\* C28: a failed execute_sql stage leaves an error tagged "execute_sql",
\* and whenever errors holds such an entry query_results has success = false.
C28_ExecuteFailureMarksResults ==
    /\ "execute_sql" \in Range(fail_log) =>
            "execute_sql" \in Range(Agents(ctx.errors))
    /\ "execute_sql" \in Range(Agents(ctx.errors)) =>
            /\ "success" \in DOMAIN ctx.query_results
            /\ ~ctx.query_results.success

\* the store raised while running a validated query
C28_Witness ==
    /\ "execute_sql" \in Range(Agents(ctx.errors))
    /\ store_replies # <<>>
    /\ validate_sql(ctx.sql_query)
    /\ ~ctx.query_results.success

\* C29: is_query_validated is true only after the execute_sql stage has run
\* on a query that passes validate_sql; it is false before that stage and
\* for every query the safety gate rejects.
C29_ValidatedOnlyAfterGate ==
    /\ ctx.is_query_validated =>
            "execute_sql" \in Executed /\ validate_sql(ctx.sql_query)
    /\ "execute_sql" \notin Executed => ~ctx.is_query_validated
    /\ ~validate_sql(ctx.sql_query) => ~ctx.is_query_validated

\* the execute_sql stage ran on a query that the gate rejects
C29_Witness ==
    /\ "execute_sql" \in Executed
    /\ ctx.sql_query # <<>>
    /\ ~validate_sql(ctx.sql_query)
    /\ ~ctx.is_query_validated

\* C30: the query of the context is empty until generate_sql has succeeded;
\* after a failed generate_sql the errors hold an entry tagged
\* "generate_sql" and the query is empty up to and in the returned result.
C30_QueryEmptyUntilGenerated ==
    /\ "generate_sql" \notin Executed => ctx.sql_query = <<>>
    /\ "generate_sql" \in Range(fail_log) =>
            /\ "generate_sql" \in Range(Agents(ctx.errors))
            /\ ctx.sql_query = <<>>
            /\ pc = "returned" => result.sql_query = <<>>

\* a run whose generation failed has returned
C30_Witness ==
    /\ pc = "returned"
    /\ "generate_sql" \in Range(fail_log)
    /\ result.sql_query = <<>>
    /\ ~result.success

\* C22: check_for_errors returns "error" exactly when the errors list of its
\* argument is non-empty, "success" otherwise, and the context after the
\* call is the context it was given.
C22_CheckForErrorsReadsOnly ==
    [][checked' # checked /\ checked'.label # "none" =>
          /\ checked'.label \in {"error", "success"}
          /\ checked'.label = "error" <=> Len(checked'.context.errors) > 0
          /\ checked'.label = "success" <=> checked'.context.errors = <<>>
          /\ ctx' = checked'.context]_vars

\* check_for_errors answered "error" after a successful generate_sql,
\* because of the entry load_context had left
C22_Witness ==
    /\ trace = <<"load_context", "generate_sql">>
    /\ checked.label = "error"
    /\ Agents(checked.context.errors) = <<"load_context">>
    /\ ctx = checked.context

\* the format_response stage runs in this step
FormatResponseStep == pc = "format_response" /\ pc' # "format_response"

\* the deterministic summary of ResponseFormatter's except branch
FallbackSummary(results) ==
    IF ~results.success
    THEN <<"There was an error processing your query: ">> \o results.error
    ELSE IF results.row_count = 0
    THEN <<"No results were found that match your query.">>
    ELSE <<"Found ", ToString(results.row_count),
           " results. Here's the data: ">> \o results.data

\* C27: format_response with a non-empty errors list does not call the
\* translation service and answers with the apology citing the message of
\* the last error; with an empty errors list it calls the service, and when
\* that call fails the response is the fallback summary, no error is
\* appended and the run goes on to save_memory.
C27_FormatResponseBranches ==
    [][FormatResponseStep =>
          IF ctx.errors # <<>>
          THEN /\ llm_calls' = llm_calls
               /\ ctx'.response =
                    <<"I'm sorry, but I encountered an error: ">>
                        \o ctx.errors[Len(ctx.errors)].message
          ELSE /\ Len(llm_calls') = Len(llm_calls) + 1
               /\ llm_calls'[Len(llm_calls')].stage = "format_response"
               /\ llm_calls'[Len(llm_calls')].outcome.kind = "raise" =>
                    /\ ctx'.response = FallbackSummary(ctx.query_results)
                    /\ ctx'.errors = <<>>
                    /\ pc' = "save_memory"]_vars

\* the translation service failed in format_response and the fallback
\* summary of a non-empty result became the response
C27_Witness ==
    /\ pc = "save_memory"
    /\ ctx.errors = <<>>
    /\ llm_calls[Len(llm_calls)] =
          [stage |-> "format_response",
           outcome |-> [kind |-> "raise", exc |-> <<"llm unavailable">>]]
    /\ ctx.query_results.row_count > 0
    /\ ctx.response = FallbackSummary(ctx.query_results)

\* what the store answered during the second call
SecondReplies ==
    SubSeq(store_replies, Len(first.replies) + 1, Len(store_replies))

\* the failure branches taken before the response was produced
ResponseFailures(log) == SelectSeq(log, LAMBDA a : a # "save_memory")

\* the second call met the same environment as the first: the translation
\* service was asked the same and answered the same, without failing, the
\* store answered the same, and the same error branches were taken
SameConditions ==
    /\ llm_calls = first.llm_calls
    /\ \A i \in 1..Len(llm_calls) : llm_calls[i].outcome.kind # "raise"
    /\ SecondReplies = first.replies
    /\ ResponseFailures(fail_log) = ResponseFailures(first.fail_log)

\* C23: a second call of process_question with the same user and question,
\* against an unchanged store and a translation service that answers the
\* same and does not fail, returns the query and the response of the first
\* call (the same error branches taken), although the history of the user
\* has grown by the record of the first call.
C23_SecondRunReturnsTheSame ==
    runs = 2 /\ pc = "returned" /\ SameConditions =>
        /\ result.sql_query = first.result.sql_query
        /\ result.response = first.result.response

\* the second call loaded the record the first call had stored, and both
\* calls succeeded under the same conditions
C23_Witness ==
    /\ runs = 2 /\ pc = "returned" /\ SameConditions
    /\ result.success /\ first.result.success
    /\ Len(ctx.conversation_history) = 1
    /\ ctx.conversation_history[1].question = ctx.question
    /\ result.response = first.result.response

\* C24: seed_database inserts rows only in a call that found the store
\* empty, and a call on a store that holds clients leaves every table as it
\* found it.
C24_SeedOnlyWhenEmpty ==
    [][/\ db' # db => seed.at_call = EmptyDb
       /\ seed'.at_call["clientes"] # {} => db' = seed'.at_call]_vars

\* a further call on the fully seeded store has returned without a change
C24_Witness ==
    /\ seed.pc = "idle"
    /\ seed.calls >= 2
    /\ seed.log[Len(seed.log)] = "Database already seeded. Skipping..."
    /\ Cardinality(db["transacoes"]) = NRandomTransacoes + NNotebookTransacoes
    /\ db = seed.at_call

\* the stage tags of the error taxonomy
TaxonomyTags == {"load_context", "generate_sql", "execute_sql", "save_memory"}

\* C31: every entry of errors, in the context of a run and in the result it
\* returns, carries one of the four stage tags load_context, generate_sql,
\* execute_sql, save_memory.
C31_ErrorTagsAreStageTags ==
    /\ \A i \in 1..Len(ctx.errors) : ctx.errors[i].agent \in TaxonomyTags
    /\ pc = "returned" =>
          \A i \in 1..Len(result.errors) :
              result.errors[i].agent \in TaxonomyTags

\* a run has returned errors of three stages
C31_Witness ==
    /\ pc = "returned"
    /\ Range(Agents(result.errors)) =
          {"load_context", "generate_sql", "save_memory"}

\* C32: no step of a run changes the question or the user id of the
\* context, the result returned carries the question passed in, and after
\* load_context no stage changes conversation_history.
C32_QuestionUserHistoryKept ==
    [][runs' = runs =>
          /\ ctx'.question = ctx.question
          /\ ctx'.user_id = ctx.user_id
          /\ pc # "load_context" =>
                ctx'.conversation_history = ctx.conversation_history
          /\ pc' = "returned" => result'.question = ctx.question]_vars

\* a run that loaded a stored record has returned
C32_Witness ==
    /\ pc = "returned"
    /\ ctx.conversation_history # <<>>
    /\ result.question = ctx.question
    /\ ctx.question \in Questions

\* C33: in a finished run the execute_sql stage was skipped exactly when the
\* generate_sql stage failed; an error of load_context alone does not keep a
\* generated query from being executed.
C33_ExecuteSkippedIffGenerateFailed ==
    pc \in {END, "returned"} =>
        ("execute_sql" \notin Executed <=> "generate_sql" \in Range(fail_log))

\* C34: the save_memory stage of every run, whatever happened before it,
\* leaves the history file of the user one record longer, the new record
\* being that of the run.
C34_EveryRunAddsOneRecord ==
    [][SaveMemoryStep =>
          /\ Persisted
          /\ Len(Stored(memory_files'[ctx.user_id])) =
                Len(Stored(memory_files[ctx.user_id])) + 1]_vars

\* C37: the query a successful generate_sql stage leaves in the context is
\* the cleaned answer of the translation service to the question, whatever
\* the user id and the loaded history are.
C37_QueryDependsOnQuestionOnly ==
    "generate_sql" \in Executed /\ "generate_sql" \notin Range(fail_log) =>
        /\ llm_calls # <<>>
        /\ llm_calls[1].stage = "generate_sql"
        /\ ctx.sql_query =
              generator_generate_sql(ctx.question, llm_calls[1].outcome).value

\* a query was generated for the second user, who has a stored history
C37_Witness ==
    /\ "generate_sql" \in Executed /\ "generate_sql" \notin Range(fail_log)
    /\ ctx.user_id = "u2"
    /\ ctx.conversation_history # <<>>
    /\ ctx.sql_query # <<>>

\* C38: a run that returns success = true generated a query that passes
\* validate_sql, handed it to the store, and ended with
\* query_results.success and is_query_validated both true.
C38_SuccessMeansValidatedAndExecuted ==
    pc = "returned" /\ result.success =>
        /\ validate_sql(ctx.sql_query)
        /\ store_log # <<>>
        /\ store_log[Len(store_log)] = ctx.sql_query
        /\ "success" \in DOMAIN ctx.query_results
        /\ ctx.query_results.success
        /\ ctx.is_query_validated

\* a run has returned success = true
C38_Witness ==
    /\ pc = "returned"
    /\ result.success
    /\ result.sql_query # <<>>
    /\ ctx.query_results.row_count > 0

\* the store holds the whole fixture set and nothing else
CompleteFixture(d) ==
    /\ Cardinality(d["clientes"]) = NClientes
    /\ Cardinality(d["produtos"]) = NProdutos
    /\ Cardinality(d["transacoes"]) = NRandomTransacoes + NNotebookTransacoes

\* C39: when seed_database has returned, the store holds either the complete
\* fixture set or exactly the rows it held before the call; it never holds
\* clients, which make later calls skip, while products or transactions are
\* missing.
C39_SeedAllOrNothing ==
    seed.pc = "idle" =>
        /\ db = seed.at_call \/ CompleteFixture(db)
        /\ db["clientes"] # {} =>
              db["produtos"] # {} /\ db["transacoes"] # {}

\* the translation service answered the formatting prompt of the run
\* without any text
FormatAnswerEmpty ==
    /\ llm_calls # <<>>
    /\ llm_calls[Len(llm_calls)] =
          [stage |-> "format_response", outcome |-> [kind |-> "empty"]]

\* C40 as stated: the response in the result returned by process_question
\* is never the empty string.
C40_ResponseNeverEmpty ==
    pc = "returned" => result.response # <<>>

\* C40: the response in the result returned by process_question is the text
\* format_response assigned, and it is empty only when the translation
\* service answered the formatting prompt with an empty text; the fallback
\* summary and the apology are never empty.
C40_ResponseEmptyOnlyIfAnswerEmpty ==
    pc = "returned" =>
        /\ "format_response" \in Executed
        /\ result.response = ctx.response
        /\ result.response = <<>> => FormatAnswerEmpty

\* a run whose generation failed has returned the apology
C40_Witness ==
    /\ pc = "returned"
    /\ "generate_sql" \in Range(fail_log)
    /\ result.response # <<>>
    /\ result.response[1] = "I'm sorry, but I encountered an error: "

\* every add_interaction call has returned or raised, and no write failed
AllWritesDone ==
    \A w \in Callers :
        /\ writers[w].pc \in {"done", "raised"}
        /\ writers[w].pc = "done" => writers[w].wrote = "ok"

\* C35: once the concurrent add_interaction calls for a user have all
\* returned, every write having succeeded, the stored document of the user
\* holds at least as many records as before the calls: a load that saw the
\* file between another caller's truncation and rewrite drops nothing.
C35_RecordsNeverDropped ==
    AllWritesDone =>
        \A w \in Callers :
            Len(Stored(memory_files[writers[w].user])) >= writers[w].before

\* the stored document of a user id
DocumentOf(user_id) == fs[Resolve(get_user_memory_path(user_id))]

\* C36: a call of add_interaction for one user id leaves the stored
\* document of every other user id as it was.
C36_OtherUsersUntouched ==
    [][path_calls' # path_calls =>
          \A v \in PathUserIds :
              v # path_calls'[Len(path_calls')] =>
                  DocumentOf(v)' = DocumentOf(v)]_vars

====
